---- MODULE Spec2Model ----
(***************************************************************************)
(* Model of steamdeck-mate: the full-duplex audio engine                   *)
(* (mate/audio/soundcard_pyaudio.py) and the service registry              *)
(* (mate/services/__init__.py).                                            *)
(*                                                                         *)
(* Audio data is opaque to the engine, so a prepared playback buffer is    *)
(* represented by the identity of its bytes: byte k of the item that was   *)
(* enqueued as the id-th play_audio call is the pair (id, k).  A stretch   *)
(* of device output is a run-length segment                                *)
(*     [t |-> "data", id, from, to]   bytes from..to-1 of item id          *)
(*     [t |-> "pad",  to |-> n]       n frames of post-item silence        *)
(*     [t |-> "fill"]                 silence because nothing is queued    *)
(*     [t |-> "stop"]                 silence because the stop signal is   *)
(*                                    set                                  *)
(* The threads of the program (device callbacks, callers of play_audio,    *)
(* stop_playback, wait_until_playback_finished, the asyncio loop) are      *)
(* interleaved at their accesses to the shared fields.                     *)
(***************************************************************************)
EXTENDS Integers, Sequences, FiniteSets, TLC

\* ---- program constants -------------------------------------------------
SampleRate == 16000
FramesPerBuffer == 1024
BytesPerFrame == 2

\* ---- bounds of the model ------------------------------------------------
MaxPlay == 2
ShortLen == 1
LongLen == 1500

\* lengths (in samples) of the arrays handed to play_audio
ItemLens == {0, ShortLen, LongLen}

VARIABLES
  \* SoundCard fields (playback)
  playback_queue, current_buffer, current_pos, leftover_silence_frames,
  stop_signal_playback,
  \* the playback callback's position and locals
  cb_pc, cb_needed, cb_out, cb_segs, cb_item, cb_abort,
  \* the play_audio caller, the stop_playback caller, the waiter
  play_pc, play_item, sp_pc, w_pc, w_win, w_done,
  \* history of the playback side: the lengths of the items in enqueue order,
  \* the output returned to the device, the output of the last invocation,
  \* whether stop_playback was ever called, and the abort bookkeeping:
  \* abort_exp = -(k+1) after a stop_playback that found k items enqueued and
  \* the current item partly played,
  \* abort_exp = k+1 once a play_audio called after that stop has enqueued its
  \* item; cb_abort / last_abort hold the positive value an invocation saw
  \* when it started
  played, emitted, last_out, last_abort, everStopped, abort_exp

pbVars == <<playback_queue, current_buffer, current_pos, leftover_silence_frames,
            stop_signal_playback, cb_pc, cb_needed, cb_out, cb_segs, cb_item,
            cb_abort, play_pc, play_item, sp_pc, w_pc, w_win, w_done,
            played, emitted, last_out, last_abort, everStopped, abort_exp>>

\* SoundCard fields (capture), the record-stream generator, the caller of
\* stop_recording, and the history of the frames the device delivered
VARIABLES
  record_queue, recording_active, stop_signal_record,
  gen_pc, sr_pc, delivered, last_frame, yielded

recVars == <<record_queue, recording_active, stop_signal_record,
             gen_pc, sr_pc, delivered, last_frame, yielded>>

\* ServiceDiscovery fields, the probe rounds in progress, the last answer of
\* get_best_service and the history of the rounds
VARIABLES
  sd_init, service_definitions, services, rounds, gb_result, last_round

sdVars == <<sd_init, service_definitions, services, rounds, gb_result, last_round>>

\* The scanner of the registry: the caller of start() and stop(), the
\* background task of _update_loop, the network behind each definition, and
\* the history of the lifecycle calls
VARIABLES
  stop_event, update_task, loop_pc, start_pc, stop_pc, endpoint, last_call

lcVars == <<stop_event, update_task, loop_pc, start_pc, stop_pc, endpoint,
            last_call>>

\* LlamaPromptManager fields and the last call made on the manager
VARIABLES
  current_mode, histories, pm_call

pmVars == <<current_mode, histories, pm_call>>

\* One transcribe_stream session of STTWhisperRemote: the WebSocketApp and
\* its thread, the sender thread, the generator and its consumer, and the
\* history of the session (the transcripts on_message accepted, the text the
\* consumer was given, the calls of the two external callbacks)
VARIABLES
  ws_state, queue, thread_stop_event, old_full_text, ts_pc, t_diff, snd_pc,
  srv_len, accepted, yielded_text, opens, closes

wsVars == <<ws_state, queue, thread_stop_event, old_full_text, ts_pc, t_diff,
            snd_pc, srv_len, accepted, yielded_text, opens, closes>>

\* TTSInterface fields, the worker thread of _run, the callers of
\* set_stop_signal and wait_until_done, and the history of the sentences
VARIABLES
  sentence_queue, stop_signal, speaking, run_pc, sentence, ss_pc, wd_pc,
  spoken, discarded, accepted_count, wd_held, speak_pc,
  tts_thread, ss_target, ab_pc, failed, dropped

ttsVars == <<sentence_queue, stop_signal, speaking, run_pc, sentence, ss_pc,
             wd_pc, spoken, discarded, accepted_count, wd_held, speak_pc,
             tts_thread, ss_target, ab_pc, failed, dropped>>

\* InterruptSpeechThread: the external stop event, the worker thread of _run
\* with its wake-word listener, the caller of stop(), and what the worker did
VARIABLES
  it_stop_event, it_thread, it_run_pc, it_stop_pc, it_starts, it_ended_by,
  it_callbacks, it_last_callback, it_stop_called

itVars == <<it_stop_event, it_thread, it_run_pc, it_stop_pc, it_starts,
            it_ended_by, it_callbacks, it_last_callback, it_stop_called>>

\* SteamdeckMate.ask_llm: the position of the generator, its arguments, the
\* chunks the LLM has streamed, its locals, what it has yielded, and
\* the history before the call and as passed to chat
VARIABLES
  al_pc, al_text, stream_sentences, al_stream, response, sentence_buffer,
  al_yields, al_complete, al_before, al_passed

alVars == <<al_pc, al_text, stream_sentences, al_stream, response,
            sentence_buffer, al_yields, al_complete, al_before, al_passed>>

\* SteamdeckMate.listen_and_choose_mode from line 88 on: the position in the
\* loop, its locals, what each turn was started with and how its input was
\* judged, the calls it made, the exception that ended it, and the TTS adapters
\* it speaks through: the sentence queue and the sentence in flight of each, and
\* what reached SoundCard.play_audio, in order
VARIABLES
  lo_pc, wake_word, full_text, lo_deltas, lo_wait, lo_sane, lo_llm_calls,
  lo_hist_adds, lo_yielded, lo_spoken, lo_exc, processing_sound_task,
  tts_queues, tts_sentence, lo_handed

loVars == <<lo_pc, wake_word, full_text, lo_deltas, lo_wait, lo_sane,
            lo_llm_calls, lo_hist_adds, lo_yielded, lo_spoken, lo_exc,
            processing_sound_task, tts_queues, tts_sentence, lo_handed>>

\* ServiceDiscovery as a singleton: the class attribute _instance, the objects
\* created, the fields __init__ sets, the constructing threads, and what the
\* first run of __init__ stored and the scanner wrote since
VARIABLES
  sg_instance, sg_objects, sg_initialized, sg_defs, sg_services, sg_init_runs,
  sg_first_defs, sg_written, ctor_pc, ctor_arg, ctor_calls

sgVars == <<sg_instance, sg_objects, sg_initialized, sg_defs, sg_services,
            sg_init_runs, sg_first_defs, sg_written, ctor_pc, ctor_arg,
            ctor_calls>>

\* a caller of clean_str_from_markdown: its text, and what the first and the
\* second call returned
VARIABLES
  cm_pc, cm_text, cm_once, cm_twice

cmVars == <<cm_pc, cm_text, cm_once, cm_twice>>

\* the scanner tasks under any sequence of start() and stop(): the stop event,
\* self._update_task, the tasks of _update_loop and the caller's position
VARIABLES st_stop_event, st_update_task, st_tasks, st_cancel, st_pc, st_calls,
          st_last

stVars == <<st_stop_event, st_update_task, st_tasks, st_cancel, st_pc,
            st_calls, st_last>>

\* the speech agent and the orchestrator
agentVars == <<itVars, alVars, loVars, sgVars, cmVars, stVars>>

\* the components that follow the audio engine and the registry
extVars == <<lcVars, pmVars, wsVars, ttsVars, agentVars>>

\* what the actions of one component leave alone
othersOfScanner == <<pbVars, recVars, pmVars, wsVars, ttsVars, agentVars>>
othersOfPrompt == <<pbVars, recVars, sdVars, lcVars, wsVars, ttsVars, agentVars>>
othersOfStt == <<pbVars, recVars, sdVars, lcVars, pmVars, ttsVars, agentVars>>
othersOfTts == <<pbVars, recVars, sdVars, lcVars, pmVars, wsVars, agentVars>>

othersOfInterrupt == <<pbVars, recVars, sdVars, lcVars, pmVars, wsVars, ttsVars,
                       alVars, loVars, sgVars, cmVars, stVars>>
othersOfAskLlm == <<pbVars, recVars, sdVars, lcVars, wsVars, ttsVars, itVars,
                    loVars, sgVars, cmVars, stVars>>
othersOfLoop == <<pbVars, recVars, sdVars, lcVars, pmVars, wsVars, ttsVars,
                  itVars, alVars, sgVars, cmVars, stVars>>
othersOfSingleton == <<pbVars, recVars, sdVars, lcVars, pmVars, wsVars, ttsVars,
                       itVars, alVars, loVars, cmVars, stVars>>

othersOfClean == <<pbVars, recVars, sdVars, lcVars, pmVars, wsVars, ttsVars,
                   itVars, alVars, loVars, sgVars, stVars>>

othersOfScanTasks == <<pbVars, recVars, sdVars, lcVars, pmVars, wsVars, ttsVars,
                       itVars, alVars, loVars, sgVars, cmVars>>

vars == <<pbVars, recVars, sdVars, extVars>>

Min(a, b) == IF a < b THEN a ELSE b

\* ---- buffers and segments -----------------------------------------------
EmptyBuffer == [id |-> 0, len |-> 0]
NoItem == [id |-> 0, n |-> 0]

Seg(t, id, from, to) == [t |-> t, id |-> id, from |-> from, to |-> to]

\* output_data.extend(...): append a stretch of output to the run-length
\* history of what the device was given; the history keeps the item data and
\* the post-item padding, not the silence emitted while idle or stopped
AppendSeg(h, s) ==
  IF s.t \in {"fill", "stop"} \/ s.from = s.to THEN h
  ELSE IF h = <<>> THEN <<s>>
  ELSE LET l == h[Len(h)] IN
       IF l.t = "pad" /\ s.t = "pad"
         THEN [h EXCEPT ![Len(h)].to = l.to + s.to]
       ELSE IF l.t = "data" /\ s.t = "data" /\ l.id = s.id /\ l.to = s.from
         THEN [h EXCEPT ![Len(h)].to = s.to]
       ELSE Append(h, s)

RECURSIVE AppendAll(_, _)
AppendAll(h, ss) ==
  IF ss = <<>> THEN h ELSE AppendAll(AppendSeg(h, Head(ss)), Tail(ss))

\* _prepare_audio_for_playback with in_sample_rate = out_sample_rate:
\* no resampling, int16 samples, tobytes() gives 2 bytes per sample
PrepareAudioForPlayback(item) == [id |-> item.id, len |-> item.n * BytesPerFrame]

\* queue.Queue.get / get_nowait: the oldest element
QueueGetLifo(q) == q[Len(q)]
QueueGet(q) == Head(q)
QueueRest(q) == Tail(q)

\* ---- initial state: SoundCard.__init__ ------------------------------------
InitPlayback ==
  /\ playback_queue = <<>>
  /\ current_buffer = EmptyBuffer
  /\ current_pos = 0
  /\ leftover_silence_frames = 0
  /\ stop_signal_playback = FALSE
  /\ cb_pc = "idle" /\ cb_needed = 0 /\ cb_out = 0 /\ cb_segs = <<>>
  /\ cb_item = NoItem /\ cb_abort = 0
  /\ play_pc = "idle" /\ play_item = [id |-> 0, n |-> 0, abort |-> FALSE]
  /\ sp_pc = "idle"
  /\ w_pc = "idle" /\ w_win = {} /\ w_done = FALSE
  /\ played = <<>> /\ emitted = <<>> /\ last_out = <<>> /\ last_abort = 0
  /\ everStopped = FALSE /\ abort_exp = 0

\* ---- play_audio -----------------------------------------------------------
\* Lines 244-269: the argument is converted to an int16 array (its content is
\* opaque here), then the stop signal is cleared if it was set.
PlayAudioClear(n) ==
  /\ play_pc = "idle"
  /\ Len(played) < MaxPlay
  /\ play_item' = [id |-> Len(played) + 1, n |-> n,
                   abort |-> (abort_exp < 0 /\ sp_pc = "idle")]
  /\ stop_signal_playback' = FALSE
  /\ play_pc' = "put"
  /\ UNCHANGED <<playback_queue, current_buffer, current_pos, leftover_silence_frames,
                 cb_pc, cb_needed, cb_out, cb_segs, cb_item, cb_abort, sp_pc,
                 w_pc, w_win, w_done, played, emitted, last_out, last_abort,
                 everStopped, abort_exp>>
  /\ UNCHANGED <<recVars, sdVars, extVars>>

\* Line 270: self.playback_queue.put((sample_rate, audio_array))
PlayAudioPut ==
  /\ play_pc = "put"
  /\ playback_queue' = Append(playback_queue, [id |-> play_item.id, n |-> play_item.n])
  /\ played' = Append(played, play_item.n)
  /\ abort_exp' = IF play_item.abort /\ abort_exp < 0 /\ sp_pc = "idle"
                    THEN -abort_exp ELSE abort_exp
  /\ play_pc' = "idle"
  /\ play_item' = [id |-> 0, n |-> 0, abort |-> FALSE]
  /\ UNCHANGED <<current_buffer, current_pos, leftover_silence_frames,
                 stop_signal_playback, cb_pc, cb_needed, cb_out, cb_segs, cb_item,
                 cb_abort, sp_pc, w_pc, w_win, w_done, emitted, last_out,
                 last_abort, everStopped>>
  /\ UNCHANGED <<recVars, sdVars, extVars>>

\* ---- stop_playback --------------------------------------------------------
\* Line 276: self.stop_signal_playback.set()
StopPlaybackSet ==
  /\ sp_pc = "idle"
  /\ stop_signal_playback' = TRUE
  /\ sp_pc' = "check"
  /\ everStopped' = TRUE
  /\ abort_exp' = IF current_buffer.len > 0 /\ current_pos > 0
                    THEN -(Len(played) + 1) ELSE 0
  /\ UNCHANGED <<playback_queue, current_buffer, current_pos, leftover_silence_frames,
                 cb_pc, cb_needed, cb_out, cb_segs, cb_item, cb_abort, play_pc,
                 play_item, w_pc, w_win, w_done, played, emitted, last_out, last_abort>>
  /\ UNCHANGED <<recVars, sdVars, extVars>>

\* Line 278: while not self.playback_queue.empty()
StopPlaybackCheck ==
  /\ sp_pc = "check"
  /\ sp_pc' = IF playback_queue = <<>> THEN "idle" ELSE "get"
  /\ UNCHANGED <<playback_queue, current_buffer, current_pos, leftover_silence_frames,
                 stop_signal_playback, cb_pc, cb_needed, cb_out, cb_segs, cb_item,
                 cb_abort, play_pc, play_item, w_pc, w_win, w_done, played, emitted,
                 last_out, last_abort, everStopped, abort_exp>>
  /\ UNCHANGED <<recVars, sdVars, extVars>>

\* Line 279: self.playback_queue.get()  (blocks while the queue is empty)
StopPlaybackGet ==
  /\ sp_pc = "get"
  /\ playback_queue # <<>>
  /\ playback_queue' = QueueRest(playback_queue)
  /\ sp_pc' = "check"
  /\ UNCHANGED <<current_buffer, current_pos, leftover_silence_frames,
                 stop_signal_playback, cb_pc, cb_needed, cb_out, cb_segs, cb_item,
                 cb_abort, play_pc, play_item, w_pc, w_win, w_done, played, emitted,
                 last_out, last_abort, everStopped, abort_exp>>
  /\ UNCHANGED <<recVars, sdVars, extVars>>

\* ---- _playback_callback ---------------------------------------------------
\* the frame counts PortAudio asks for (frames_per_buffer of the stream)
FrameCounts == {FramesPerBuffer}

\* return (bytes(output_data), paContinue)
CbReturn(segs) ==
  /\ cb_pc' = "idle"
  /\ emitted' = AppendAll(emitted, segs)
  /\ last_out' = segs
  /\ last_abort' = cb_abort
  /\ cb_segs' = <<>> /\ cb_out' = 0 /\ cb_needed' = 0 /\ cb_abort' = 0

\* the callback as it would be if the stop branch gave up the current item
PlaybackCallbackEnterDropsItem ==
  /\ cb_pc = "idle"
  /\ \E n \in FrameCounts :
       IF stop_signal_playback
         THEN /\ last_out' = <<Seg("stop", 0, 0, n * BytesPerFrame)>>
              /\ last_abort' = 0
              /\ current_buffer' = EmptyBuffer
              /\ current_pos' = 0
              /\ UNCHANGED <<cb_pc, cb_needed, cb_out, cb_segs, cb_abort, emitted>>
         ELSE /\ cb_pc' = "loop"
              /\ cb_needed' = n * BytesPerFrame
              /\ cb_out' = 0
              /\ cb_segs' = <<>>
              /\ cb_abort' = IF abort_exp > 0 THEN abort_exp ELSE 0
              /\ UNCHANGED <<emitted, last_out, last_abort, current_buffer,
                             current_pos>>
  /\ UNCHANGED <<playback_queue, leftover_silence_frames,
                 stop_signal_playback, cb_item, play_pc, play_item, sp_pc,
                 w_pc, w_win, w_done, played, everStopped, abort_exp>>
  /\ UNCHANGED <<recVars, sdVars, extVars>>

\* Lines 130-135: with the stop signal set the callback returns silence at
\* once, otherwise it enters the fill loop.
PlaybackCallbackEnter ==
  /\ cb_pc = "idle"
  /\ \E n \in FrameCounts :
       IF stop_signal_playback
         THEN /\ last_out' = <<Seg("stop", 0, 0, n * BytesPerFrame)>>
              /\ last_abort' = 0
              /\ UNCHANGED <<cb_pc, cb_needed, cb_out, cb_segs, cb_abort, emitted>>
         ELSE /\ cb_pc' = "loop"
              /\ cb_needed' = n * BytesPerFrame
              /\ cb_out' = 0
              /\ cb_segs' = <<>>
              /\ cb_abort' = IF abort_exp > 0 THEN abort_exp ELSE 0
              /\ UNCHANGED <<emitted, last_out, last_abort>>
  /\ UNCHANGED <<playback_queue, current_buffer, current_pos, leftover_silence_frames,
                 stop_signal_playback, cb_item, play_pc, play_item, sp_pc,
                 w_pc, w_win, w_done, played, everStopped, abort_exp>>
  /\ UNCHANGED <<recVars, sdVars, extVars>>

\* Lines 136-182: one pass of the while loop, up to the point where the queue
\* is found non-empty (the dequeue is a separate step of the callback thread).
PlaybackCallbackLoop ==
  /\ cb_pc = "loop"
  /\ LET ls0   == leftover_silence_frames
         ftw   == IF ls0 > 0
                    THEN Min(ls0, (cb_needed - cb_out) \div BytesPerFrame) ELSE 0
         out1  == cb_out + ftw * BytesPerFrame
         ls1   == ls0 - ftw
         segs1 == IF ftw > 0 THEN Append(cb_segs, Seg("pad", 0, 0, ftw)) ELSE cb_segs
     IN
     IF ls0 > 0 /\ out1 >= cb_needed
       THEN /\ leftover_silence_frames' = ls1
            /\ CbReturn(segs1)
            /\ UNCHANGED <<playback_queue, current_buffer, current_pos, cb_item>>
     ELSE IF current_buffer.len > 0 /\ current_pos < current_buffer.len
       THEN LET copy  == Min(current_buffer.len - current_pos, cb_needed - out1)
                pos2  == current_pos + copy
                fin   == pos2 >= current_buffer.len
                segs2 == Append(segs1, Seg("data", current_buffer.id, current_pos, pos2))
            IN /\ leftover_silence_frames' = IF fin THEN SampleRate ELSE ls1
               /\ current_buffer' = IF fin THEN EmptyBuffer ELSE current_buffer
               /\ current_pos' = IF fin THEN 0 ELSE pos2
               /\ IF out1 + copy >= cb_needed
                    THEN CbReturn(segs2)
                    ELSE /\ cb_out' = out1 + copy
                         /\ cb_segs' = segs2
                         /\ UNCHANGED <<cb_pc, cb_needed, cb_abort, emitted,
                                        last_out, last_abort>>
               /\ UNCHANGED <<playback_queue, cb_item>>
     ELSE IF playback_queue # <<>>
       THEN /\ cb_pc' = "get"
            /\ leftover_silence_frames' = ls1
            /\ cb_out' = out1
            /\ cb_segs' = segs1
            /\ UNCHANGED <<playback_queue, current_buffer, current_pos, cb_item,
                           cb_needed, cb_abort, emitted, last_out, last_abort>>
     ELSE /\ leftover_silence_frames' = ls1
          /\ CbReturn(Append(segs1, Seg("fill", 0, 0, cb_needed - out1)))
          /\ UNCHANGED <<playback_queue, current_buffer, current_pos, cb_item>>
  /\ UNCHANGED <<stop_signal_playback, play_pc, play_item, sp_pc, w_pc, w_win,
                 w_done, played, everStopped, abort_exp>>
  /\ UNCHANGED <<recVars, sdVars, extVars>>

\* Line 170: get_nowait(); it raises queue.Empty when stop_playback emptied
\* the queue after the check of line 168, and an exception raised in the
\* callback aborts the stream (the callback is not invoked again).
PlaybackCallbackGet ==
  /\ cb_pc = "get"
  /\ IF playback_queue = <<>>
       THEN /\ cb_pc' = "dead"
            /\ UNCHANGED <<playback_queue, cb_item>>
       ELSE /\ cb_item' = QueueGet(playback_queue)
            /\ playback_queue' = QueueRest(playback_queue)
            /\ cb_pc' = "assign"
  /\ UNCHANGED <<current_buffer, current_pos, leftover_silence_frames,
                 stop_signal_playback, cb_needed, cb_out, cb_segs, cb_abort,
                 play_pc, play_item, sp_pc, w_pc, w_win, w_done, played, emitted,
                 last_out, last_abort, everStopped, abort_exp>>
  /\ UNCHANGED <<recVars, sdVars, extVars>>

\* Lines 171-176: the dequeued item becomes the current buffer
PlaybackCallbackAssign ==
  /\ cb_pc = "assign"
  /\ current_buffer' = PrepareAudioForPlayback(cb_item)
  /\ current_pos' = 0
  /\ cb_item' = NoItem
  /\ cb_pc' = "loop"
  /\ UNCHANGED <<playback_queue, leftover_silence_frames, stop_signal_playback,
                 cb_needed, cb_out, cb_segs, cb_abort, play_pc, play_item, sp_pc,
                 w_pc, w_win, w_done, played, emitted, last_out, last_abort,
                 everStopped, abort_exp>>
  /\ UNCHANGED <<recVars, sdVars, extVars>>

\* ---- wait_until_playback_finished -------------------------------------------
\* the engine has no work: what the waiter is meant to observe
EngineIdle ==
  /\ playback_queue = <<>>
  /\ current_buffer.len = 0
  /\ leftover_silence_frames = 0

\* Line 413: not queue.empty() or current_buffer or leftover_silence_frames > 0
WaitBusyNoSilence(q, buf, ls) == q # <<>> \/ buf.len > 0
WaitBusy(q, buf, ls) == q # <<>> \/ buf.len > 0 \/ ls > 0

WaitUnchanged ==
  UNCHANGED <<playback_queue, current_buffer, current_pos, leftover_silence_frames,
              stop_signal_playback, cb_pc, cb_needed, cb_out, cb_segs, cb_item,
              cb_abort, play_pc, play_item, sp_pc, played, emitted, last_out,
              last_abort, everStopped, abort_exp, recVars, sdVars, extVars>>

WaitCall ==
  /\ w_pc = "idle"
  /\ w_pc' = "step1"
  /\ w_win' = {}
  /\ w_done' = FALSE
  /\ WaitUnchanged

\* Lines 400-401: while not self.playback_queue.empty(): sleep
WaitStep1 ==
  /\ w_pc = "step1"
  /\ w_pc' = IF playback_queue # <<>> THEN "step1" ELSE "step2"
  /\ UNCHANGED <<w_win, w_done>>
  /\ WaitUnchanged

\* Lines 404-409: while current_buffer or leftover_silence_frames > 0: sleep;
\* then silence_start = time.time() opens the observation window
WaitStep2 ==
  /\ w_pc = "step2"
  /\ IF current_buffer.len > 0 \/ leftover_silence_frames > 0
       THEN UNCHANGED <<w_pc, w_win>>
       ELSE w_pc' = "step3" /\ w_win' = {}
  /\ UNCHANGED w_done
  /\ WaitUnchanged

\* Lines 410-415: less than one second has passed since silence_start: one
\* observation; new work breaks the window and restarts the outer loop.
\* w_win records what the engine's state was at each observation of the window.
WaitObserve ==
  /\ w_pc = "step3"
  /\ w_win' = w_win \cup {EngineIdle}
  /\ w_pc' = IF WaitBusy(playback_queue, current_buffer, leftover_silence_frames)
               THEN "step1" ELSE "step3"
  /\ UNCHANGED w_done
  /\ WaitUnchanged

\* Lines 410, 416-419: the loop condition fails (one second has passed, which
\* takes at least the first pass of the loop) and the else branch returns.
WaitExpire ==
  /\ w_pc = "step3"
  /\ w_win # {}
  /\ w_pc' = "idle"
  /\ w_done' = TRUE
  /\ UNCHANGED w_win
  /\ WaitUnchanged

\* ---- capture side ------------------------------------------------------------
MaxFrames == 3

InitRecord ==
  /\ record_queue = <<>>
  /\ recording_active = FALSE
  /\ stop_signal_record = FALSE
  /\ gen_pc = "none"
  /\ sr_pc = "idle"
  /\ delivered = 0
  /\ last_frame = [id |-> 0, active |-> FALSE, stop |-> FALSE, stored |-> FALSE]
  /\ yielded = <<>>

\* bool(self.recording_active): the truth value of a threading.Event object,
\* which defines neither __bool__ nor __len__, whatever its flag is
EventTruthy(flag) == TRUE

\* Line 192: if self.recording_active and not self.stop_signal_record.is_set()
RecordCallbackStores(active, stop) == EventTruthy(active) /\ ~stop

\* _record_callback: the device delivers its next frame
RecordCallback ==
  /\ delivered < MaxFrames
  /\ LET store == RecordCallbackStores(recording_active, stop_signal_record)
     IN /\ record_queue' = IF store THEN Append(record_queue, delivered + 1)
                           ELSE record_queue
        /\ last_frame' = [id |-> delivered + 1, active |-> recording_active,
                          stop |-> stop_signal_record, stored |-> store]
  /\ delivered' = delivered + 1
  /\ UNCHANGED <<recording_active, stop_signal_record, gen_pc, sr_pc, yielded>>
  /\ UNCHANGED <<pbVars, sdVars, extVars>>

\* get_record_stream, lines 206-207: the first __anext__ of a new consumer
GetRecordStreamStart ==
  /\ gen_pc \in {"none", "done"}
  /\ stop_signal_record' = FALSE
  /\ recording_active' = TRUE
  /\ gen_pc' = "loop"
  /\ UNCHANGED <<record_queue, sr_pc, delivered, last_frame, yielded>>
  /\ UNCHANGED <<pbVars, sdVars, extVars>>

\* Lines 210-215: the loop test and the test of the queue
GetRecordStreamLoop ==
  /\ gen_pc = "loop"
  /\ gen_pc' = IF stop_signal_record THEN "fin"
               ELSE IF record_queue # <<>> THEN "get" ELSE "sleep"
  /\ UNCHANGED <<record_queue, recording_active, stop_signal_record, sr_pc,
                 delivered, last_frame, yielded>>
  /\ UNCHANGED <<pbVars, sdVars, extVars>>

\* Lines 212-213: chunk = self.record_queue.get() (blocking); yield chunk
GetRecordStreamGet ==
  /\ gen_pc = "get"
  /\ record_queue # <<>>
  /\ yielded' = Append(yielded, Head(record_queue))
  /\ record_queue' = Tail(record_queue)
  /\ gen_pc' = "yield"
  /\ UNCHANGED <<recording_active, stop_signal_record, sr_pc, delivered, last_frame>>
  /\ UNCHANGED <<pbVars, sdVars, extVars>>

\* Line 215: await asyncio.sleep(0.01) is over
GetRecordStreamWake ==
  /\ gen_pc = "sleep"
  /\ gen_pc' = "loop"
  /\ UNCHANGED <<record_queue, recording_active, stop_signal_record, sr_pc,
                 delivered, last_frame, yielded>>
  /\ UNCHANGED <<pbVars, sdVars, extVars>>

\* the consuming task is cancelled: CancelledError is raised at the await of
\* line 215 and the finally block runs
GetRecordStreamCancel ==
  /\ gen_pc = "sleep"
  /\ gen_pc' = "fin"
  /\ UNCHANGED <<record_queue, recording_active, stop_signal_record, sr_pc,
                 delivered, last_frame, yielded>>
  /\ UNCHANGED <<pbVars, sdVars, extVars>>

\* the consumer asks for the next chunk
ConsumerNext ==
  /\ gen_pc = "yield"
  /\ gen_pc' = "loop"
  /\ UNCHANGED <<record_queue, recording_active, stop_signal_record, sr_pc,
                 delivered, last_frame, yielded>>
  /\ UNCHANGED <<pbVars, sdVars, extVars>>

\* the consumer stops iterating (break, return, or cancelled between chunks);
\* the generator stays suspended at its yield
ConsumerAbandon ==
  /\ gen_pc = "yield"
  /\ gen_pc' = "abandoned"
  /\ UNCHANGED <<record_queue, recording_active, stop_signal_record, sr_pc,
                 delivered, last_frame, yielded>>
  /\ UNCHANGED <<pbVars, sdVars, extVars>>

\* the event loop finalizes the abandoned generator (aclose): GeneratorExit is
\* raised at the yield of line 213 and the finally block runs
GetRecordStreamClose ==
  /\ gen_pc = "abandoned"
  /\ gen_pc' = "fin"
  /\ UNCHANGED <<record_queue, recording_active, stop_signal_record, sr_pc,
                 delivered, last_frame, yielded>>
  /\ UNCHANGED <<pbVars, sdVars, extVars>>

\* Line 220: self.recording_active.clear()
GetRecordStreamFinally ==
  /\ gen_pc = "fin"
  /\ recording_active' = FALSE
  /\ gen_pc' = "drain"
  /\ UNCHANGED <<record_queue, stop_signal_record, sr_pc, delivered, last_frame, yielded>>
  /\ UNCHANGED <<pbVars, sdVars, extVars>>

\* Line 222: while not self.record_queue.empty()
GetRecordStreamDrainCheck ==
  /\ gen_pc = "drain"
  /\ gen_pc' = IF record_queue = <<>> THEN "done" ELSE "drain_get"
  /\ UNCHANGED <<record_queue, recording_active, stop_signal_record, sr_pc,
                 delivered, last_frame, yielded>>
  /\ UNCHANGED <<pbVars, sdVars, extVars>>

\* Line 223: self.record_queue.get() (blocking)
GetRecordStreamDrainGet ==
  /\ gen_pc = "drain_get"
  /\ record_queue # <<>>
  /\ record_queue' = Tail(record_queue)
  /\ gen_pc' = "drain"
  /\ UNCHANGED <<recording_active, stop_signal_record, sr_pc, delivered,
                 last_frame, yielded>>
  /\ UNCHANGED <<pbVars, sdVars, extVars>>

\* stop_recording, line 229: self.stop_signal_record.set()
StopRecordingSet ==
  /\ sr_pc = "idle"
  /\ stop_signal_record' = TRUE
  /\ sr_pc' = "check"
  /\ UNCHANGED <<record_queue, recording_active, gen_pc, delivered, last_frame, yielded>>
  /\ UNCHANGED <<pbVars, sdVars, extVars>>

\* Line 231: while not self.record_queue.empty()
StopRecordingCheck ==
  /\ sr_pc = "check"
  /\ sr_pc' = IF record_queue = <<>> THEN "idle" ELSE "get"
  /\ UNCHANGED <<record_queue, recording_active, stop_signal_record, gen_pc,
                 delivered, last_frame, yielded>>
  /\ UNCHANGED <<pbVars, sdVars, extVars>>

\* Line 232: self.record_queue.get() (blocking)
StopRecordingGet ==
  /\ sr_pc = "get"
  /\ record_queue # <<>>
  /\ record_queue' = Tail(record_queue)
  /\ sr_pc' = "check"
  /\ UNCHANGED <<recording_active, stop_signal_record, gen_pc, delivered,
                 last_frame, yielded>>
  /\ UNCHANGED <<pbVars, sdVars, extVars>>

NextRecord ==
  \/ RecordCallback
  \/ GetRecordStreamStart
  \/ GetRecordStreamLoop
  \/ GetRecordStreamGet
  \/ GetRecordStreamWake
  \/ GetRecordStreamCancel
  \/ ConsumerNext
  \/ ConsumerAbandon
  \/ GetRecordStreamClose
  \/ GetRecordStreamFinally
  \/ GetRecordStreamDrainCheck
  \/ GetRecordStreamDrainGet
  \/ StopRecordingSet
  \/ StopRecordingCheck
  \/ StopRecordingGet

\* ---- service registry ---------------------------------------------------------
MaxDefs == 2
ServiceTypes == {"TTS", "STT"}
Priorities == {1, 2}

\* the two callers of _check_services_once that can be in a round at the same
\* time: the background scanner, and start() or a direct call
RoundIds == {"loop", "direct"}

\* a service definition: its key in the services map and the service_type and
\* priority its class gives to its instances
ServiceDefs == [name : 1..MaxDefs, type : ServiceTypes, priority : Priorities]
\* lists of definitions with distinct names
DefLists == {l \in [1..MaxDefs -> ServiceDefs] : \A i \in 1..MaxDefs : l[i].name = i}

\* the definitions used where only the rounds matter
DefaultDefs == [i \in 1..MaxDefs |-> [name |-> i, type |-> "TTS", priority |-> 1]]

IdleRound == [pc |-> "idle", res |-> <<>>]
NoResult == [kind |-> "none", type |-> "", instance |-> 0, table |-> FALSE]

InitDiscovery ==
  /\ sd_init = FALSE
  /\ service_definitions = <<>>
  /\ services = <<>>
  /\ rounds = [r \in RoundIds |-> IdleRound]
  /\ gb_result = NoResult
  /\ last_round = <<>>

\* the process has not been terminated by sys.exit
Alive == gb_result.kind # "exit"

\* ServiceDiscovery.__init__ (first construction)
Construct(defs) ==
  /\ ~sd_init
  /\ sd_init' = TRUE
  /\ service_definitions' = defs
  /\ services' = <<>>
  /\ UNCHANGED <<rounds, gb_result, last_round>>
  /\ UNCHANGED <<pbVars, recVars, extVars>>

\* self.services.get(name): the record of a name, or None
HasRecord(svcs, name) == \E i \in 1..Len(svcs) : svcs[i].name = name
RecordOf(svcs, name) == svcs[CHOOSE i \in 1..Len(svcs) : svcs[i].name = name]
ExistingInstance(svcs, name) ==
  IF HasRecord(svcs, name) THEN RecordOf(svcs, name).instance ELSE 0

\* Lines 232-236: the probe tasks of a round are created
CheckServicesOnceStart(r) ==
  /\ sd_init /\ Alive
  /\ rounds[r].pc = "idle"
  /\ rounds' = [rounds EXCEPT ![r] =
       [pc |-> "probing",
        res |-> [d \in 1..Len(service_definitions) |-> "pending"]]]
  /\ UNCHANGED <<sd_init, service_definitions, services, gb_result, last_round>>
  /\ UNCHANGED <<pbVars, recVars, extVars>>

\* what a probe task can meet: the constructor raises (only when there is no
\* instance yet), check_availability returns True or False, or it raises
ProbeOutcomes(seen) ==
  {"ok", "down", "raise"} \cup (IF seen = 0 THEN {"ctor_fail"} ELSE {})

\* Lines 219-230: the tuple (name, instance, is_available) check_one returns
CheckOneResultRaiseKeeps(d, outcome) ==
  [name |-> service_definitions[d].name,
   instance |-> IF outcome = "ctor_fail" THEN 0 ELSE d,
   available |-> outcome \in {"ok", "raise"}]
CheckOneResult(d, outcome) ==
  [name |-> service_definitions[d].name,
   instance |-> IF outcome = "ctor_fail" THEN 0 ELSE d,
   available |-> outcome = "ok"]

\* check_one of definition d in round r (lines 212-230, taken as one step: the
\* instance the map holds is read, a missing one is constructed, the probe
\* runs to its result)
CheckOne(r, d) ==
  /\ Alive
  /\ rounds[r].pc = "probing"
  /\ d \in 1..Len(service_definitions)
  /\ rounds[r].res[d] = "pending"
  /\ \E outcome \in ProbeOutcomes(ExistingInstance(services, service_definitions[d].name)) :
       rounds' = [rounds EXCEPT ![r].res[d] = outcome]
  /\ UNCHANGED <<sd_init, service_definitions, services, gb_result, last_round>>
  /\ UNCHANGED <<pbVars, recVars, extVars>>

\* self.services[name] = {...}: a dict keeps the position of an existing key
\* and appends a new one
DictSet(svcs, rec) ==
  IF HasRecord(svcs, rec.name)
    THEN [i \in 1..Len(svcs) |-> IF svcs[i].name = rec.name THEN rec ELSE svcs[i]]
    ELSE Append(svcs, rec)

\* Lines 238-240: the results are written in the order of the definitions
RECURSIVE WriteResults(_, _, _)
WriteResults(svcs, res, k) ==
  IF k = 0 THEN svcs
  ELSE DictSet(WriteResults(svcs, res, k - 1), CheckOneResult(k, res[k]))

\* Lines 236-240: gather has all results; they are written under the lock
CheckServicesOnceWrite(r) ==
  /\ Alive
  /\ rounds[r].pc = "probing"
  /\ \A d \in 1..Len(service_definitions) : rounds[r].res[d] # "pending"
  /\ services' = WriteResults(services, rounds[r].res, Len(service_definitions))
  /\ last_round' = rounds[r].res
  /\ rounds' = [rounds EXCEPT ![r] = IdleRound]
  /\ UNCHANGED <<sd_init, service_definitions, gb_result>>
  /\ UNCHANGED <<pbVars, recVars, extVars>>

\* instance.service_type, instance.priority
TypeOf(inst) == service_definitions[inst].type
PriorityOf(inst) == service_definitions[inst].priority

\* Lines 271-275: the instances of the available records of the type, in the
\* order of the services map
IsCandidate(rec, T) == rec.instance # 0 /\ TypeOf(rec.instance) = T /\ rec.available
RECURSIVE Candidates(_, _)
Candidates(svcs, T) ==
  IF svcs = <<>> THEN <<>>
  ELSE (IF IsCandidate(Head(svcs), T) THEN <<Head(svcs).instance>> ELSE <<>>)
       \o Candidates(Tail(svcs), T)

\* Line 282: candidates.sort(key=priority, reverse=True) is a stable sort:
\* elements of equal priority keep their order
\* an element already placed stays in front of a later one of equal priority
StaysInFrontStrict(placed, x) == PriorityOf(placed) > PriorityOf(x)
StaysInFront(placed, x) == PriorityOf(placed) >= PriorityOf(x)

RECURSIVE InsertDesc(_, _)
InsertDesc(sorted, x) ==
  IF sorted = <<>> THEN <<x>>
  ELSE IF StaysInFront(Head(sorted), x)
         THEN <<Head(sorted)>> \o InsertDesc(Tail(sorted), x)
         ELSE <<x>> \o sorted

RECURSIVE SortByPriorityDesc(_)
SortByPriorityDesc(c) ==
  IF c = <<>> THEN <<>>
  ELSE InsertDesc(SortByPriorityDesc(SubSeq(c, 1, Len(c) - 1)), c[Len(c)])

\* get_best_service: the answer for a type; without a candidate the status
\* table is printed and sys.exit ends the process
GetBestServiceReturnsNone(svcs, T) ==
  LET c == Candidates(svcs, T) IN
  IF c = <<>>
    THEN [kind |-> "return", type |-> T, instance |-> 0, table |-> FALSE]
    ELSE [kind |-> "return", type |-> T, instance |-> SortByPriorityDesc(c)[1],
          table |-> FALSE]
GetBestService(svcs, T) ==
  LET c == Candidates(svcs, T) IN
  IF c = <<>>
    THEN [kind |-> "exit", type |-> T, instance |-> 0, table |-> TRUE]
    ELSE [kind |-> "return", type |-> T, instance |-> SortByPriorityDesc(c)[1],
          table |-> FALSE]

GetBestServiceCall(T) ==
  /\ sd_init /\ Alive
  /\ LET a == GetBestService(services, T)
     IN gb_result' = a
  /\ UNCHANGED <<sd_init, service_definitions, services, rounds, last_round>>
  /\ UNCHANGED <<pbVars, recVars, extVars>>

\* the registry with any definitions, probe rounds one after the other, and
\* callers of get_best_service
NextDiscovery ==
  \/ \E defs \in DefLists : Construct(defs)
  \/ CheckServicesOnceStart("direct")
  \/ \E d \in 1..MaxDefs : CheckOne("direct", d)
  \/ CheckServicesOnceWrite("direct")
  \/ \E T \in ServiceTypes : GetBestServiceCall(T)

\* the registry with probe rounds that can overlap
NextRounds ==
  \/ Construct(DefaultDefs)
  \/ \E r \in RoundIds : CheckServicesOnceStart(r)
  \/ \E r \in RoundIds : \E d \in 1..MaxDefs : CheckOne(r, d)
  \/ \E r \in RoundIds : CheckServicesOnceWrite(r)

\* ---- the scanner: start(), stop(), _update_loop and the probes ---------------
\* the adapter classes whose probe waits for a TCP connection
AdapterClasses == {"LlmOllamaRemote", "STTWhisperRemote", "TTSOpenedAISpeech"}

\* the service_type an adapter class gives to its instances
ServiceTypeOfClass(cls) ==
  IF cls = "LlmOllamaRemote" THEN "LLM"
  ELSE IF cls = "STTWhisperRemote" THEN "STT" ELSE "TTS"

\* whether the probe of the class bounds its connection attempt:
\* LlmOllamaRemote goes through __check_remote_endpoint__
\* (asyncio.wait_for(..., timeout=2)); STTWhisperRemote and TTSOpenedAISpeech
\* await asyncio.open_connection(host, port) directly
HasConnectTimeout(cls) == cls = "LlmOllamaRemote"

\* what the host behind an endpoint does with a connection attempt
EndpointKinds == {"up", "refusing", "silent"}

AdapterDefLists ==
  {l \in [1..MaxDefs -> [name : 1..MaxDefs, type : {"LLM", "STT", "TTS"},
                         priority : {1}, cls : AdapterClasses]] :
     \A i \in 1..MaxDefs :
       l[i].name = i /\ l[i].type = ServiceTypeOfClass(l[i].cls)}

InitScanner ==
  /\ stop_event = FALSE
  /\ update_task = "none"
  /\ loop_pc = "none"
  /\ start_pc = "idle"
  /\ stop_pc = "idle"
  /\ endpoint = <<>>
  /\ last_call = "none"

\* ServiceDiscovery.__init__ with adapter classes; the hosts behind them are
\* up, refuse connections, or never answer
ConstructAdapters(defs, net) ==
  /\ ~sd_init
  /\ sd_init' = TRUE
  /\ service_definitions' = defs
  /\ services' = <<>>
  /\ endpoint' = net
  /\ UNCHANGED <<rounds, gb_result, last_round>>
  /\ UNCHANGED <<stop_event, update_task, loop_pc, start_pc, stop_pc,
                 last_call>>
  /\ UNCHANGED othersOfScanner

PendingRound == [pc |-> "probing",
                 res |-> [d \in 1..Len(service_definitions) |-> "pending"]]

\* the coroutine that awaits the round r is still waiting for it
RoundAwaited(r) ==
  IF r = "direct" THEN start_pc = "round" ELSE loop_pc = "round"

\* the state of the scanner task when start() enters its first round and when
\* start() has finished it (line 180: asyncio.create_task(self._update_loop()))
LoopTaskAtCallEarly(old) == "new"
LoopTaskAtCall(old) == old
LoopTaskAtReturn(old) == "new"

\* start() up to its first suspension (lines 176-179 and 232-236): the stop
\* event is cleared and the probe tasks of the first round are created.
\* The caller awaits start() and stop() one after the other and starts the
\* scanner only when it is not running.
StartCall ==
  /\ sd_init /\ Alive
  /\ start_pc = "idle" /\ stop_pc = "idle" /\ update_task = "none"
  /\ rounds["direct"].pc = "idle"
  /\ stop_event' = FALSE
  /\ rounds' = [rounds EXCEPT !["direct"] = PendingRound]
  /\ start_pc' = "round"
  /\ loop_pc' = LoopTaskAtCall(loop_pc)
  /\ UNCHANGED <<sd_init, service_definitions, services, gb_result, last_round>>
  /\ UNCHANGED <<update_task, stop_pc, endpoint, last_call>>
  /\ UNCHANGED othersOfScanner

\* check_one up to its suspension in the probe (lines 212-226): the instance
\* the map holds is reused or one is constructed, and check_availability
\* starts its connection attempt
ProbeConnect(r, d) ==
  /\ Alive
  /\ rounds[r].pc = "probing" /\ RoundAwaited(r)
  /\ d \in 1..Len(service_definitions)
  /\ rounds[r].res[d] = "pending"
  /\ rounds' = [rounds EXCEPT ![r].res[d] = "connecting"]
  /\ UNCHANGED <<sd_init, service_definitions, services, gb_result, last_round>>
  /\ UNCHANGED lcVars
  /\ UNCHANGED othersOfScanner

\* the host answers: the connection is made (True) or refused (the exception
\* is caught, False)
ConnectReturns(r, d) ==
  /\ Alive
  /\ rounds[r].pc = "probing" /\ RoundAwaited(r)
  /\ d \in 1..Len(service_definitions)
  /\ rounds[r].res[d] = "connecting"
  /\ endpoint[d] # "silent"
  /\ rounds' = [rounds EXCEPT ![r].res[d] =
                  IF endpoint[d] = "up" THEN "ok" ELSE "down"]
  /\ UNCHANGED <<sd_init, service_definitions, services, gb_result, last_round>>
  /\ UNCHANGED lcVars
  /\ UNCHANGED othersOfScanner

\* asyncio.wait_for ends the attempt after its timeout (line 37-40 of
\* __check_remote_endpoint__); only for a class whose probe has one
WaitForTimeout(r, d) ==
  /\ Alive
  /\ rounds[r].pc = "probing" /\ RoundAwaited(r)
  /\ d \in 1..Len(service_definitions)
  /\ rounds[r].res[d] = "connecting"
  /\ HasConnectTimeout(service_definitions[d].cls)
  /\ rounds' = [rounds EXCEPT ![r].res[d] = "down"]
  /\ UNCHANGED <<sd_init, service_definitions, services, gb_result, last_round>>
  /\ UNCHANGED lcVars
  /\ UNCHANGED othersOfScanner

\* the operating system gives the attempt up with an error of its own; the
\* program does not control whether or when this happens
ConnectOsError(r, d) ==
  /\ Alive
  /\ rounds[r].pc = "probing" /\ RoundAwaited(r)
  /\ d \in 1..Len(service_definitions)
  /\ rounds[r].res[d] = "connecting"
  /\ rounds' = [rounds EXCEPT ![r].res[d] = "down"]
  /\ UNCHANGED <<sd_init, service_definitions, services, gb_result, last_round>>
  /\ UNCHANGED lcVars
  /\ UNCHANGED othersOfScanner

RoundComplete(r) ==
  /\ rounds[r].pc = "probing"
  /\ \A d \in 1..Len(service_definitions) :
       rounds[r].res[d] \notin {"pending", "connecting"}

\* start() from the end of gather to its return (lines 236-240 and 180): the
\* results of the first round are written, then the scanner task is created
StartFinish ==
  /\ Alive
  /\ start_pc = "round"
  /\ RoundComplete("direct")
  /\ services' = WriteResults(services, rounds["direct"].res,
                              Len(service_definitions))
  /\ last_round' = rounds["direct"].res
  /\ rounds' = [rounds EXCEPT !["direct"] = IdleRound]
  /\ update_task' = "set"
  /\ loop_pc' = LoopTaskAtReturn(loop_pc)
  /\ start_pc' = "idle"
  /\ last_call' = "start"
  /\ UNCHANGED <<sd_init, service_definitions, gb_result>>
  /\ UNCHANGED <<stop_event, stop_pc, endpoint>>
  /\ UNCHANGED othersOfScanner

\* _update_loop at its while test (line 198), when the task first runs and
\* when its sleep of 3 seconds is over: it ends if the stop event is set,
\* otherwise the probe tasks of the next round are created (line 199)
LoopIterate ==
  /\ Alive
  /\ loop_pc \in {"new", "sleep"}
  /\ rounds["loop"].pc = "idle"
  /\ IF stop_event
       THEN loop_pc' = "exited" /\ UNCHANGED rounds
       ELSE loop_pc' = "round" /\ rounds' = [rounds EXCEPT !["loop"] = PendingRound]
  /\ UNCHANGED <<sd_init, service_definitions, services, gb_result, last_round>>
  /\ UNCHANGED <<stop_event, update_task, start_pc, stop_pc, endpoint,
                 last_call>>
  /\ UNCHANGED othersOfScanner

\* the scanner's round from the end of gather to the sleep (lines 236-240, 201)
LoopWrite ==
  /\ Alive
  /\ loop_pc = "round"
  /\ RoundComplete("loop")
  /\ services' = WriteResults(services, rounds["loop"].res,
                              Len(service_definitions))
  /\ last_round' = rounds["loop"].res
  /\ rounds' = [rounds EXCEPT !["loop"] = IdleRound]
  /\ loop_pc' = "sleep"
  /\ UNCHANGED <<sd_init, service_definitions, gb_result>>
  /\ UNCHANGED <<stop_event, update_task, start_pc, stop_pc, endpoint,
                 last_call>>
  /\ UNCHANGED othersOfScanner

\* stop() up to its suspension (lines 186-189): without a scanner task it
\* does nothing; otherwise it sets the stop event and cancels the task, which
\* will get CancelledError at the await it is suspended in
StopCall ==
  /\ sd_init /\ Alive
  /\ start_pc = "idle" /\ stop_pc = "idle"
  /\ IF update_task = "none"
       THEN /\ last_call' = "stop_noop"
            /\ UNCHANGED <<stop_event, loop_pc, stop_pc>>
       ELSE /\ stop_event' = TRUE
            /\ loop_pc' = "cancelling"
            /\ stop_pc' = "await"
            /\ last_call' = IF rounds["loop"].pc = "probing"
                               THEN "stopping_round" ELSE "stopping"
  /\ UNCHANGED sdVars
  /\ UNCHANGED <<update_task, start_pc, endpoint>>
  /\ UNCHANGED othersOfScanner

\* the scanner task runs again and CancelledError is raised at its await:
\* in gather (the probe tasks are cancelled with it and nothing is written)
\* or in the sleep (line 203: break)
LoopCancelled ==
  /\ loop_pc = "cancelling"
  /\ loop_pc' = "exited"
  /\ rounds' = [rounds EXCEPT !["loop"] = IdleRound]
  /\ UNCHANGED <<sd_init, service_definitions, services, gb_result, last_round>>
  /\ UNCHANGED <<stop_event, update_task, start_pc, stop_pc, endpoint,
                 last_call>>
  /\ UNCHANGED othersOfScanner

\* await self._update_task (line 190) is over
AwaitTaskOverAtOnce(pc) == TRUE
AwaitTaskOver(pc) == pc = "exited"

\* stop() from the end of its await to its return (lines 190-193)
StopReturn ==
  /\ stop_pc = "await"
  /\ AwaitTaskOver(loop_pc)
  /\ update_task' = "none"
  /\ loop_pc' = IF loop_pc = "exited" THEN "none" ELSE loop_pc
  /\ stop_pc' = "idle"
  /\ last_call' = IF last_call = "stopping_round" THEN "stop_round" ELSE "stop"
  /\ UNCHANGED sdVars
  /\ UNCHANGED <<stop_event, start_pc, endpoint>>
  /\ UNCHANGED othersOfScanner

EndpointLists == [1..MaxDefs -> EndpointKinds]

NextScanner ==
  \/ \E defs \in AdapterDefLists : \E net \in EndpointLists :
       ConstructAdapters(defs, net)
  \/ StartCall
  \/ \E r \in RoundIds : \E d \in 1..MaxDefs : ProbeConnect(r, d)
  \/ \E r \in RoundIds : \E d \in 1..MaxDefs : ConnectReturns(r, d)
  \/ \E r \in RoundIds : \E d \in 1..MaxDefs : WaitForTimeout(r, d)
  \/ \E r \in RoundIds : \E d \in 1..MaxDefs : ConnectOsError(r, d)
  \/ StartFinish
  \/ LoopIterate
  \/ LoopWrite
  \/ StopCall
  \/ LoopCancelled
  \/ StopReturn

\* ---- the prompt manager ------------------------------------------------------
\* bounds: the number of entries the histories of all modes hold together,
\* and the largest token limit
MaxHist == 5
MaxLimit == 4

\* two of the members of Mode
Modes == {"CHAT", "LEDCONTROL"}

\* GLOBAL_BASE_TEMPLATES[mode.name].system_prompt
SystemPrompt(m) == IF m = "CHAT" THEN "template CHAT" ELSE "template LEDCONTROL"

\* the texts a caller adds
Texts == {"hi", "hi there"}

\* count_tokens: the number of tokens the encoding gives a text
CountTokens(text) ==
  IF text = "hi" THEN 1
  ELSE IF text = "hi there" THEN 2
  ELSE IF text = "template CHAT" THEN 2
  ELSE 3

TokenLimits == 0..MaxLimit

\* the system entry a mode's history is given
SystemEntryOfChat(m) == [role |-> "system", content |-> SystemPrompt("CHAT")]
SystemEntry(m) == [role |-> "system", content |-> SystemPrompt(m)]

\* count_history_tokens / calculate_token_count: the sum over the entries
RECURSIVE CountHistoryTokens(_)
CountHistoryTokens(h) ==
  IF h = <<>> THEN 0 ELSE CountTokens(Head(h).content) + CountHistoryTokens(Tail(h))

\* before the manager is constructed
InitPrompt ==
  /\ current_mode = "none"
  /\ histories = [m \in Modes |-> <<>>]
  /\ pm_call = [op |-> "none", limit |-> 0, removed |-> 0, head |-> ""]

Constructed == pm_call.op # "none"

\* LlamaPromptManager(initial_mode, strategy): every mode is given a list of
\* its own that holds its system entry (lines 29-33)
ConstructPrompt(initial_mode) ==
  /\ ~Constructed
  /\ current_mode' = initial_mode
  /\ histories' = [m \in Modes |-> <<SystemEntry(m)>>]
  /\ pm_call' = [op |-> "init", limit |-> 0, removed |-> 0, head |-> ""]
  /\ UNCHANGED othersOfPrompt

\* self.histories[self.current_mode] is given a new content; the lists of the
\* modes are distinct objects
UpdateHistoryShared(hs, m, h) == [k \in DOMAIN hs |-> h]
UpdateHistory(hs, m, h) == [hs EXCEPT ![m] = h]

\* the number of entries in the histories of a set of modes
RECURSIVE TotalEntries(_, _)
TotalEntries(hs, ms) ==
  IF ms = {} THEN 0
  ELSE LET m == CHOOSE x \in ms : TRUE
       IN Len(hs[m]) + TotalEntries(hs, ms \ {m})

\* PromptManager.set_mode
SetMode(m) ==
  /\ Constructed
  /\ current_mode' = m
  /\ pm_call' = [op |-> "set_mode", limit |-> 0, removed |-> 0, head |-> ""]
  /\ UNCHANGED histories
  /\ UNCHANGED othersOfPrompt

\* add_user_entry and add_assistant_entry
AddEntry(role, text) ==
  /\ Constructed
  /\ TotalEntries(histories, Modes) < MaxHist
  /\ histories' = UpdateHistory(histories, current_mode,
       Append(histories[current_mode], [role |-> role, content |-> text]))
  /\ pm_call' = [op |-> "add", limit |-> 0, removed |-> 0, head |-> ""]
  /\ UNCHANGED current_mode
  /\ UNCHANGED othersOfPrompt

\* empty_history: clear, then append the system entry of the current mode
EmptyHistory ==
  /\ Constructed
  /\ histories' = UpdateHistory(histories, current_mode, <<SystemEntry(current_mode)>>)
  /\ pm_call' = [op |-> "empty", limit |-> 0, removed |-> 0, head |-> ""]
  /\ UNCHANGED current_mode
  /\ UNCHANGED othersOfPrompt

\* history.pop(0)
PopNewest(h) == SubSeq(h, 1, Len(h) - 1)
PopOldest(h) == Tail(h)

\* RemoveOldestStrategy.reduce: while the count exceeds the limit and the
\* history is not empty, pop index 0
RECURSIVE Reduce(_, _)
Reduce(h, limit) ==
  IF CountHistoryTokens(h) > limit /\ h # <<>>
    THEN Reduce(PopOldest(h), limit)
    ELSE h

\* LlamaPromptManager.reduce_history
ReduceHistory(limit) ==
  /\ Constructed
  /\ histories' = UpdateHistory(histories, current_mode,
       IF CountHistoryTokens(histories[current_mode]) > limit
         THEN Reduce(histories[current_mode], limit)
         ELSE histories[current_mode])
  /\ pm_call' = [op |-> "reduce", limit |-> limit,
                 removed |-> Len(histories[current_mode])
                               - Len(histories'[current_mode]),
                 head |-> IF histories[current_mode] = <<>> THEN ""
                          ELSE histories[current_mode][1].role]
  /\ UNCHANGED current_mode
  /\ UNCHANGED othersOfPrompt

\* the calls of the claims about the system entry
NextPromptEntries ==
  \/ \E m \in Modes : ConstructPrompt(m)
  \/ \E m \in Modes : SetMode(m)
  \/ \E role \in {"user", "assistant"} : \E text \in Texts : AddEntry(role, text)
  \/ EmptyHistory

\* ... and reduce_history
NextPrompt ==
  \/ NextPromptEntries
  \/ \E limit \in TokenLimits : ReduceHistory(limit)

\* ---- a transcribe_stream session of STTWhisperRemote ---------------------------
\* on_message drops a text of at most 8 characters (line 93)
MinChars == 8
\* bound: the length of the longest transcript the server sends
MaxText == 11
\* bound on the counters of the callback calls
MaxCalls == 3

\* the cumulative transcript of n characters: the first n characters of what
\* is being said
Transcript(n) == [i \in 1..n |-> i]
\* the None that on_close puts on the queue
NoneMarker == <<0>>

InitStt ==
  /\ ws_state = "none"
  /\ queue = <<>>
  /\ thread_stop_event = FALSE
  /\ old_full_text = <<>>
  /\ ts_pc = "none"
  /\ t_diff = <<>>
  /\ snd_pc = "none"
  /\ srv_len = 0
  /\ accepted = <<>>
  /\ yielded_text = <<>>
  /\ opens = 0
  /\ closes = 0

\* the external callbacks websocket_on_open() and websocket_on_close()
CallOnOpen(n) == IF n < MaxCalls THEN n + 1 ELSE n
CallOnClose(n) == IF n < MaxCalls THEN n + 1 ELSE n

\* the first step of the generator (lines 81-164): the WebSocketApp is made
\* and its thread started
TranscribeStart ==
  /\ ts_pc = "none"
  /\ ts_pc' = "test"
  /\ ws_state' = "connecting"
  /\ UNCHANGED <<queue, thread_stop_event, old_full_text, t_diff, snd_pc,
                 srv_len, accepted, yielded_text, opens, closes>>
  /\ UNCHANGED othersOfStt

\* on_open (lines 101-141): the external callback, then the sender thread
WsOpen ==
  /\ ws_state = "connecting"
  /\ ws_state' = "open"
  /\ opens' = CallOnOpen(opens)
  /\ snd_pc' = "running"
  /\ UNCHANGED <<queue, thread_stop_event, old_full_text, ts_pc, t_diff,
                 srv_len, accepted, yielded_text, closes>>
  /\ UNCHANGED othersOfStt

\* on_error (lines 142-145), when the connection cannot be made or the socket
\* fails; run_forever then tears the connection down
OnError ==
  /\ ws_state \in {"connecting", "open"}
  /\ ws_state' = "teardown"
  /\ closes' = CallOnClose(closes)
  /\ thread_stop_event' = TRUE
  /\ UNCHANGED <<queue, old_full_text, ts_pc, t_diff, snd_pc, srv_len,
                 accepted, yielded_text, opens>>
  /\ UNCHANGED othersOfStt

\* on_close (lines 146-150), when the server closes the connection and at the
\* end of a teardown or of a close asked for by the program
OnClose ==
  /\ ws_state \in {"open", "teardown", "closing"}
  /\ ws_state' = "closed"
  /\ queue' = Append(queue, NoneMarker)
  /\ closes' = CallOnClose(closes)
  /\ thread_stop_event' = TRUE
  /\ UNCHANGED <<old_full_text, ts_pc, t_diff, snd_pc, srv_len, accepted,
                 yielded_text, opens>>
  /\ UNCHANGED othersOfStt

\* on_message (lines 83-97) with the next cumulative transcript, of n
\* characters: it is put on the queue if it has more than 8 characters
OnMessage(n) ==
  /\ ws_state = "open"
  /\ n > srv_len /\ n <= MaxText
  /\ srv_len' = n
  /\ IF n > MinChars
       THEN /\ queue' = Append(queue, Transcript(n))
            /\ accepted' = Transcript(n)
       ELSE UNCHANGED <<queue, accepted>>
  /\ UNCHANGED <<ws_state, thread_stop_event, old_full_text, ts_pc, t_diff,
                 snd_pc, yielded_text, opens, closes>>
  /\ UNCHANGED othersOfStt

\* wsc2.close() / ws.close(): an open or opening connection starts to close
AfterClose(st) == IF st \in {"connecting", "open"} THEN "closing" ELSE st

\* send_audio_chunks ends without an exception (the audio stream is over or
\* the stop event was seen): the finally clause, lines 130-139
SenderEnds ==
  /\ snd_pc = "running"
  /\ snd_pc' = "done"
  /\ ws_state' = AfterClose(ws_state)
  /\ thread_stop_event' = TRUE
  /\ UNCHANGED <<queue, old_full_text, ts_pc, t_diff, srv_len, accepted,
                 yielded_text, opens, closes>>
  /\ UNCHANGED othersOfStt

\* send_audio_chunks gets an exception (the audio stream raises, or send
\* fails on a closed socket): the except clause, lines 126-129
SenderFails ==
  /\ snd_pc = "running"
  /\ snd_pc' = "failed"
  /\ closes' = CallOnClose(closes)
  /\ thread_stop_event' = TRUE
  /\ UNCHANGED <<ws_state, queue, old_full_text, ts_pc, t_diff, srv_len,
                 accepted, yielded_text, opens>>
  /\ UNCHANGED othersOfStt

\* ... and then the finally clause
SenderFinally ==
  /\ snd_pc = "failed"
  /\ snd_pc' = "done"
  /\ ws_state' = AfterClose(ws_state)
  /\ thread_stop_event' = TRUE
  /\ UNCHANGED <<queue, old_full_text, ts_pc, t_diff, srv_len, accepted,
                 yielded_text, opens, closes>>
  /\ UNCHANGED othersOfStt

\* the while test of the generator (line 165)
GenTest ==
  /\ ts_pc = "test"
  /\ ts_pc' = IF thread_stop_event THEN "join" ELSE "get"
  /\ UNCHANGED <<ws_state, queue, thread_stop_event, old_full_text, t_diff,
                 snd_pc, srv_len, accepted, yielded_text, opens, closes>>
  /\ UNCHANGED othersOfStt

\* t[len(old_full_text):]
Delta(t, old) == SubSeq(t, Len(old) + 1, Len(t))

\* queue.get() returns (lines 166-173): None ends the loop, a transcript is
\* cut to its delta and yielded
GenGet ==
  /\ ts_pc = "get"
  /\ queue # <<>>
  /\ queue' = Tail(queue)
  /\ IF Head(queue) = NoneMarker
       THEN /\ ts_pc' = "join"
            /\ UNCHANGED <<old_full_text, t_diff, yielded_text>>
       ELSE /\ ts_pc' = "yield"
            /\ t_diff' = Delta(Head(queue), old_full_text)
            /\ old_full_text' = Head(queue)
            /\ yielded_text' = yielded_text \o Delta(Head(queue), old_full_text)
  /\ UNCHANGED <<ws_state, thread_stop_event, snd_pc, srv_len, accepted,
                 opens, closes>>
  /\ UNCHANGED othersOfStt

\* the consumer asks for the next delta
ConsumerAsksNext ==
  /\ ts_pc = "yield"
  /\ ts_pc' = "test"
  /\ UNCHANGED <<ws_state, queue, thread_stop_event, old_full_text, t_diff,
                 snd_pc, srv_len, accepted, yielded_text, opens, closes>>
  /\ UNCHANGED othersOfStt

\* the consumer closes the generator (it was cancelled or it left its loop):
\* GeneratorExit is raised at the yield and caught at line 179; the stop event
\* is set and the WebSocketApp asked to close (lines 181-183)
ConsumerCloses ==
  /\ ts_pc = "yield"
  /\ ts_pc' = "cleanup"
  /\ thread_stop_event' = TRUE
  /\ ws_state' = AfterClose(ws_state)
  /\ UNCHANGED <<queue, old_full_text, t_diff, snd_pc, srv_len, accepted,
                 yielded_text, opens, closes>>
  /\ UNCHANGED othersOfStt

\* ws_thread.join(timeout=5) of the cleanup (lines 184-185) is over
GenCleanupJoin ==
  /\ ts_pc = "cleanup"
  /\ ts_pc' = "closed"
  /\ UNCHANGED <<ws_state, queue, thread_stop_event, old_full_text, t_diff,
                 snd_pc, srv_len, accepted, yielded_text, opens, closes>>
  /\ UNCHANGED othersOfStt

\* ws_thread.join() after the loop (line 174): run_forever has returned
GenJoin ==
  /\ ts_pc = "join"
  /\ ws_state = "closed"
  /\ ts_pc' = "done"
  /\ UNCHANGED <<ws_state, queue, thread_stop_event, old_full_text, t_diff,
                 snd_pc, srv_len, accepted, yielded_text, opens, closes>>
  /\ UNCHANGED othersOfStt

NextStt ==
  \/ TranscribeStart
  \/ WsOpen
  \/ OnError
  \/ OnClose
  \/ \E n \in MinChars..MaxText : OnMessage(n)
  \/ SenderEnds
  \/ SenderFails
  \/ SenderFinally
  \/ GenTest
  \/ GenGet
  \/ ConsumerAsksNext
  \/ ConsumerCloses
  \/ GenCleanupJoin
  \/ GenJoin

\* ---- the TTS worker: speak, _run, set_stop_signal, wait_until_done -------------
\* bound: the number of calls of speak()
MaxSentences == 2
\* bound: the number of worker threads ever started (the one of __init__ and
\* those of clear_stop_signal)
MaxWorkers == 2
Workers == 1..MaxWorkers

InitTts ==
  /\ sentence_queue = <<>>
  /\ stop_signal = FALSE
  /\ speaking = FALSE
  /\ tts_thread = 1
  /\ run_pc = [w \in Workers |-> IF w = 1 THEN "top" ELSE "none"]
  /\ sentence = [w \in Workers |-> 0]
  /\ ss_pc = "idle"
  /\ ss_target = 1
  /\ ab_pc = "idle"
  /\ wd_pc = "idle"
  /\ spoken = <<>>
  /\ discarded = {}
  /\ failed = {}
  /\ accepted_count = 0
  /\ dropped = 0
  /\ wd_held = "none"
  /\ speak_pc = "idle"

SeqElems(q) == {q[i] : i \in 1..Len(q)}

\* the worker threads that have been started and have not ended
LiveWorkers == {w \in Workers : run_pc[w] \notin {"none", "exited"}}

\* speak (lines 80-86): the test of the stop signal; a call that finds it set
\* returns without enqueuing anything
SpeakTest ==
  /\ speak_pc = "idle"
  /\ accepted_count + dropped < MaxSentences
  /\ IF stop_signal
       THEN /\ dropped' = dropped + 1
            /\ UNCHANGED speak_pc
       ELSE /\ speak_pc' = "put"
            /\ UNCHANGED dropped
  /\ UNCHANGED <<sentence_queue, stop_signal, speaking, tts_thread, run_pc,
                 sentence, ss_pc, ss_target, ab_pc, wd_pc, spoken, discarded,
                 failed, accepted_count, wd_held>>
  /\ UNCHANGED othersOfTts

\* speak (lines 86-89): self._sentence_queue.put(sentence), in a thread of its
\* own (asyncio.to_thread), so other threads may have run since the test
SpeakPut ==
  /\ speak_pc = "put"
  /\ sentence_queue' = Append(sentence_queue, accepted_count + 1)
  /\ accepted_count' = accepted_count + 1
  /\ speak_pc' = "idle"
  /\ UNCHANGED <<stop_signal, speaking, tts_thread, run_pc, sentence, ss_pc,
                 ss_target, ab_pc, wd_pc, spoken, discarded, failed, dropped,
                 wd_held>>
  /\ UNCHANGED othersOfTts

\* _run at the top of its loop (lines 50-52)
RunTop(w) ==
  /\ run_pc[w] = "top"
  /\ IF stop_signal
       THEN /\ run_pc' = [run_pc EXCEPT ![w] = "exited"]
            /\ sentence_queue' = <<>>
            /\ discarded' = discarded \cup SeqElems(sentence_queue)
       ELSE /\ run_pc' = [run_pc EXCEPT ![w] = "get"]
            /\ UNCHANGED <<sentence_queue, discarded>>
  /\ UNCHANGED <<speak_pc, stop_signal, speaking, tts_thread, sentence, ss_pc,
                 ss_target, ab_pc, wd_pc, spoken, failed, accepted_count,
                 dropped, wd_held>>
  /\ UNCHANGED othersOfTts

\* self._sentence_queue.get(timeout=0.1) (lines 54-57): a sentence is taken,
\* or the timeout sends the loop back to its top
RunGet(w) ==
  /\ run_pc[w] = "get"
  /\ IF sentence_queue = <<>>
       THEN /\ run_pc' = [run_pc EXCEPT ![w] = "top"]
            /\ UNCHANGED <<sentence_queue, sentence>>
       ELSE /\ run_pc' = [run_pc EXCEPT ![w] = "check"]
            /\ sentence' = [sentence EXCEPT ![w] = Head(sentence_queue)]
            /\ sentence_queue' = Tail(sentence_queue)
  /\ UNCHANGED <<speak_pc, stop_signal, speaking, tts_thread, ss_pc, ss_target,
                 ab_pc, wd_pc, spoken, discarded, failed, accepted_count,
                 dropped, wd_held>>
  /\ UNCHANGED othersOfTts

\* the second test of the stop signal (lines 59-61)
RunCheck(w) ==
  /\ run_pc[w] = "check"
  /\ IF stop_signal
       THEN /\ run_pc' = [run_pc EXCEPT ![w] = "exited"]
            /\ sentence_queue' = <<>>
            /\ discarded' = discarded \cup SeqElems(sentence_queue) \cup {sentence[w]}
            /\ sentence' = [sentence EXCEPT ![w] = 0]
       ELSE /\ run_pc' = [run_pc EXCEPT ![w] = "mark"]
            /\ UNCHANGED <<sentence_queue, discarded, sentence>>
  /\ UNCHANGED <<speak_pc, stop_signal, speaking, tts_thread, ss_pc, ss_target,
                 ab_pc, wd_pc, spoken, failed, accepted_count, dropped, wd_held>>
  /\ UNCHANGED othersOfTts

\* with self._condition: self._speaking = True (lines 64-65)
RunMark(w) ==
  /\ run_pc[w] = "mark"
  /\ speaking' = TRUE
  /\ run_pc' = [run_pc EXCEPT ![w] = "speak"]
  /\ UNCHANGED <<speak_pc, sentence_queue, stop_signal, tts_thread, sentence,
                 ss_pc, ss_target, ab_pc, wd_pc, spoken, discarded, failed,
                 accepted_count, dropped, wd_held>>
  /\ UNCHANGED othersOfTts

\* self.speak_sentence(sentence) (line 67): the sentence is synthesized and
\* handed to play_audio
RunSpeak(w) ==
  /\ run_pc[w] = "speak"
  /\ spoken' = Append(spoken, sentence[w])
  /\ run_pc' = [run_pc EXCEPT ![w] = "unmark"]
  /\ UNCHANGED <<speak_pc, sentence_queue, stop_signal, speaking, tts_thread,
                 sentence, ss_pc, ss_target, ab_pc, wd_pc, discarded, failed,
                 accepted_count, dropped, wd_held>>
  /\ UNCHANGED othersOfTts

\* speak_sentence raises (tts_openedai_speech.py lines 50-63: the request to
\* the backend or the decoding of its answer fails): neither speak_sentence nor
\* _run catches it, the exception ends the worker thread at line 67
RunSpeakRaises(w) ==
  /\ run_pc[w] = "speak"
  /\ failed' = failed \cup {sentence[w]}
  /\ run_pc' = [run_pc EXCEPT ![w] = "exited"]
  /\ UNCHANGED <<speak_pc, sentence_queue, stop_signal, speaking, tts_thread,
                 sentence, ss_pc, ss_target, ab_pc, wd_pc, spoken, discarded,
                 accepted_count, dropped, wd_held>>
  /\ UNCHANGED othersOfTts

\* with self._condition: self._speaking = False; notify_all (lines 69-71)
RunUnmark(w) ==
  /\ run_pc[w] = "unmark"
  /\ speaking' = FALSE
  /\ sentence' = [sentence EXCEPT ![w] = 0]
  /\ run_pc' = [run_pc EXCEPT ![w] = "top"]
  /\ UNCHANGED <<speak_pc, sentence_queue, stop_signal, tts_thread, ss_pc,
                 ss_target, ab_pc, wd_pc, spoken, discarded, failed,
                 accepted_count, dropped, wd_held>>
  /\ UNCHANGED othersOfTts

\* set_stop_signal up to the join (lines 95-97), called by say_abort_speech
\* (human_speech_agent.py lines 89-90) or by another caller; the thread to join
\* is the one self._thread names now. ab_pc = "ended" says that the last stop
\* signal was set by a say_abort_speech that has completed.
SetStopSignal(abort) ==
  /\ ss_pc = "idle"
  /\ abort => ab_pc \in {"idle", "ended"}
  /\ stop_signal' = TRUE
  /\ ss_target' = tts_thread
  /\ ss_pc' = "join"
  /\ ab_pc' = IF abort THEN "stopping"
            ELSE IF ab_pc = "ended" THEN "idle" ELSE ab_pc
  /\ UNCHANGED <<speak_pc, sentence_queue, speaking, tts_thread, run_pc,
                 sentence, wd_pc, spoken, discarded, failed, accepted_count,
                 dropped, wd_held>>
  /\ UNCHANGED othersOfTts

\* self._thread.join() returns (line 98)
SetStopSignalJoined ==
  /\ ss_pc = "join"
  /\ run_pc[ss_target] = "exited"
  /\ ss_pc' = "idle"
  /\ UNCHANGED <<speak_pc, sentence_queue, stop_signal, speaking, tts_thread,
                 run_pc, sentence, ss_target, ab_pc, wd_pc, spoken, discarded,
                 failed, accepted_count, dropped, wd_held>>
  /\ UNCHANGED othersOfTts

\* say_abort_speech after set_stop_signal has returned (human_speech_agent.py
\* lines 91-95): stop_playback, then the abort phrase; the call ends without
\* clear_stop_signal having been called
SayAbortSpeechEnds ==
  /\ ab_pc = "stopping"
  /\ ss_pc = "idle"
  /\ ab_pc' = "ended"
  /\ UNCHANGED <<speak_pc, sentence_queue, stop_signal, speaking, tts_thread,
                 run_pc, sentence, ss_pc, ss_target, wd_pc, spoken, discarded,
                 failed, accepted_count, dropped, wd_held>>
  /\ UNCHANGED othersOfTts

\* clear_stop_signal (lines 104-108): a set signal is cleared and a new
\* worker thread started, whatever the thread started before is doing
ClearStopSignal ==
  /\ stop_signal
  /\ tts_thread < MaxWorkers
  /\ stop_signal' = FALSE
  /\ tts_thread' = tts_thread + 1
  /\ run_pc' = [run_pc EXCEPT ![tts_thread + 1] = "top"]
  /\ UNCHANGED <<speak_pc, sentence_queue, speaking, sentence, ss_pc, ss_target,
                 ab_pc, wd_pc, spoken, discarded, failed, accepted_count,
                 dropped, wd_held>>
  /\ UNCHANGED othersOfTts

\* wait_until_done is called
WaitUntilDoneCall ==
  /\ wd_pc = "idle"
  /\ wd_pc' = "waiting"
  /\ wd_held' = "none"
  /\ UNCHANGED <<speak_pc, sentence_queue, stop_signal, speaking, tts_thread,
                 run_pc, sentence, ss_pc, ss_target, ab_pc, spoken, discarded,
                 failed, accepted_count, dropped>>
  /\ UNCHANGED othersOfTts

\* the test of wait_until_done under the condition (line 115)
MustWait(q, sp) == q # <<>> \/ sp

\* wait_until_done finds its test false and returns; wd_held records whether
\* a worker holds a sentence it has taken from the queue and not yet spoken
WaitUntilDoneReturn ==
  /\ wd_pc = "waiting"
  /\ ~MustWait(sentence_queue, speaking)
  /\ wd_pc' = "idle"
  /\ wd_held' = IF \E w \in LiveWorkers :
                     sentence[w] # 0 /\ sentence[w] \notin SeqElems(spoken)
                  THEN "held" ELSE "free"
  /\ UNCHANGED <<speak_pc, sentence_queue, stop_signal, speaking, tts_thread,
                 run_pc, sentence, ss_pc, ss_target, ab_pc, spoken, discarded,
                 failed, accepted_count, dropped>>
  /\ UNCHANGED othersOfTts

NextTts ==
  \/ SpeakTest
  \/ SpeakPut
  \/ \E w \in Workers : RunTop(w)
  \/ \E w \in Workers : RunGet(w)
  \/ \E w \in Workers : RunCheck(w)
  \/ \E w \in Workers : RunMark(w)
  \/ \E w \in Workers : RunSpeak(w)
  \/ \E w \in Workers : RunSpeakRaises(w)
  \/ \E w \in Workers : RunUnmark(w)
  \/ \E abort \in BOOLEAN : SetStopSignal(abort)
  \/ SetStopSignalJoined
  \/ SayAbortSpeechEnds
  \/ ClearStopSignal
  \/ WaitUntilDoneCall
  \/ WaitUntilDoneReturn

\* ---- the interrupt worker: InterruptSpeechThread and the wake-word listener ------
\* bound: the number of start() calls
MaxStarts == 2

NoCallback == [detected |-> FALSE, event |-> FALSE, run |-> 0]

InitInterrupt ==
  /\ it_stop_event = FALSE
  /\ it_thread = "none"
  /\ it_run_pc = "none"
  /\ it_stop_pc = "idle"
  /\ it_starts = 0
  /\ it_ended_by = "none"
  /\ it_callbacks = 0
  /\ it_last_callback = NoCallback
  /\ it_stop_called = FALSE

\* start (lines 36-46): the event is cleared; a thread that is still alive is
\* kept, otherwise a new worker thread is started
InterruptStart ==
  /\ it_starts < MaxStarts
  /\ it_stop_pc = "idle"
  /\ it_stop_event' = FALSE
  /\ it_starts' = it_starts + 1
  /\ IF it_thread = "alive"
       THEN UNCHANGED <<it_thread, it_run_pc, it_ended_by, it_callbacks,
                        it_stop_called>>
       ELSE /\ it_thread' = "alive"
            /\ it_run_pc' = "listen"
            /\ it_ended_by' = "none"
            /\ it_callbacks' = 0
            /\ it_stop_called' = FALSE
  /\ UNCHANGED <<it_stop_pc, it_last_callback>>
  /\ UNCHANGED othersOfInterrupt

\* listen_for_wake_word, lines 44-49: porcupine.process reports the wake word;
\* the event is set and the listener returns
ListenDetect ==
  /\ it_run_pc = "listen"
  /\ it_stop_event' = TRUE
  /\ it_ended_by' = "detected"
  /\ it_run_pc' = "set"
  /\ UNCHANGED <<it_thread, it_stop_pc, it_starts, it_callbacks,
                 it_last_callback, it_stop_called>>
  /\ UNCHANGED othersOfInterrupt

\* listen_for_wake_word, line 38: the async for over get_record_stream() ends
\* (stop_recording was called elsewhere) and the listener returns
ListenStreamEnds ==
  /\ it_run_pc = "listen"
  /\ it_ended_by' = "stream_end"
  /\ it_run_pc' = "set"
  /\ UNCHANGED <<it_stop_event, it_thread, it_stop_pc, it_starts, it_callbacks,
                 it_last_callback, it_stop_called>>
  /\ UNCHANGED othersOfInterrupt

\* _run, line 75: self._stop_event.set()
RunSetEvent ==
  /\ it_run_pc = "set"
  /\ it_stop_event' = TRUE
  /\ it_run_pc' = "callback"
  /\ UNCHANGED <<it_thread, it_stop_pc, it_starts, it_ended_by, it_callbacks,
                 it_last_callback, it_stop_called>>
  /\ UNCHANGED othersOfInterrupt

\* _run, lines 76-77: self.stop_callback(), whatever made the listener return;
\* then the thread ends
RunCallback ==
  /\ it_run_pc = "callback"
  /\ it_callbacks' = it_callbacks + 1
  /\ it_last_callback' = [detected |-> it_ended_by = "detected",
                          event |-> it_stop_event, run |-> it_starts]
  /\ it_run_pc' = "done"
  /\ it_thread' = "dead"
  /\ UNCHANGED <<it_stop_event, it_stop_pc, it_starts, it_ended_by,
                 it_stop_called>>
  /\ UNCHANGED othersOfInterrupt

\* stop (lines 52-57): without a thread nothing happens; otherwise the event is
\* set and the caller waits in join(timeout=5.0)
InterruptStop ==
  /\ it_stop_pc = "idle"
  /\ it_thread # "none"
  /\ it_stop_event' = TRUE
  /\ it_stop_pc' = "join"
  /\ it_stop_called' = TRUE
  /\ UNCHANGED <<it_thread, it_run_pc, it_starts, it_ended_by, it_callbacks,
                 it_last_callback>>
  /\ UNCHANGED othersOfInterrupt

\* stop, lines 58-62: the join ends because the thread has ended
InterruptStopJoined ==
  /\ it_stop_pc = "join"
  /\ it_thread = "dead"
  /\ it_stop_pc' = "returned"
  /\ UNCHANGED <<it_stop_event, it_thread, it_run_pc, it_starts, it_ended_by,
                 it_callbacks, it_last_callback, it_stop_called>>
  /\ UNCHANGED othersOfInterrupt

\* stop, lines 58-60: the five seconds of the join are over and the thread is
\* still alive; a warning is logged and stop returns
InterruptStopTimeout ==
  /\ it_stop_pc = "join"
  /\ it_thread = "alive"
  /\ it_stop_pc' = "returned"
  /\ UNCHANGED <<it_stop_event, it_thread, it_run_pc, it_starts, it_ended_by,
                 it_callbacks, it_last_callback, it_stop_called>>
  /\ UNCHANGED othersOfInterrupt

\* stop_speech_interrupt_thread, lines 234-235: stop has returned and the
\* reference to the thread object is dropped
StopSpeechInterruptThreadDone ==
  /\ it_stop_pc = "returned"
  /\ it_stop_pc' = "idle"
  /\ UNCHANGED <<it_stop_event, it_thread, it_run_pc, it_starts, it_ended_by,
                 it_callbacks, it_last_callback, it_stop_called>>
  /\ UNCHANGED othersOfInterrupt

NextInterrupt ==
  \/ InterruptStart
  \/ ListenDetect
  \/ ListenStreamEnds
  \/ RunSetEvent
  \/ RunCallback
  \/ InterruptStop
  \/ InterruptStopJoined
  \/ InterruptStopTimeout
  \/ StopSpeechInterruptThreadDone

\* ---- text: a string is a sequence of characters ----------------------------------
\* the classes of characters the regular expressions of utils.py and of ask_llm
\* tell apart: \d, \s, [?:!.,], [A-Za-z0-9...], and the markdown characters
IsDigit(c) == c \in {"1"}
IsSpace(c) == c \in {" ", "\n"}
IsMark(c) == c \in {"?", ":", "!", ".", ","}
IsAlnum(c) == c \in {"a", "1"}
IsMarkdown(c) == c \in {"*", "_", "#", "`", "\"", "'"}

\* text.replace('\n', '. ') (utils.py line 167)
RECURSIVE ReplaceNewlines(_, _)
ReplaceNewlines(t, i) ==
  IF i > Len(t) THEN <<>>
  ELSE (IF t[i] = "\n" THEN <<".", " ">> ELSE <<t[i]>>) \o ReplaceNewlines(t, i + 1)

\* re.sub(r'([?:!.,])\.', r'\1', buffer) (line 169): the matches are found from
\* left to right and do not overlap
RECURSIVE DropDotAfterMark(_, _)
DropDotAfterMark(t, i) ==
  IF i > Len(t) THEN <<>>
  ELSE IF i < Len(t) /\ IsMark(t[i]) /\ t[i + 1] = "."
         THEN <<t[i]>> \o DropDotAfterMark(t, i + 2)
         ELSE <<t[i]>> \o DropDotAfterMark(t, i + 1)

\* re.sub(r"(?<!\d)\.(?![\d\s])", ". ", buffer) (line 171); the end of the
\* string is neither a digit nor white space
RECURSIVE SpaceAfterDot(_, _)
SpaceAfterDot(t, i) ==
  IF i > Len(t) THEN <<>>
  ELSE (IF /\ t[i] = "."
           /\ ~(i > 1 /\ IsDigit(t[i - 1]))
           /\ ~(i < Len(t) /\ (IsDigit(t[i + 1]) \/ IsSpace(t[i + 1])))
          THEN <<".", " ">> ELSE <<t[i]>>) \o SpaceAfterDot(t, i + 1)

\* the first position from j on that holds no digit
RECURSIVE DigitRunEnd(_, _)
DigitRunEnd(t, j) ==
  IF j <= Len(t) /\ IsDigit(t[j]) THEN DigitRunEnd(t, j + 1) ELSE j

\* re.sub(r'\.\d+\.', '.', buffer) (line 173)
RECURSIVE DropEnumeration(_, _)
DropEnumeration(t, i) ==
  IF i > Len(t) THEN <<>>
  ELSE LET j == DigitRunEnd(t, i + 1)
       IN IF t[i] = "." /\ j > i + 1 /\ j <= Len(t) /\ t[j] = "."
            THEN <<".">> \o DropEnumeration(t, j + 1)
            ELSE <<t[i]>> \o DropEnumeration(t, i + 1)

\* clean_str_from_markdown (utils.py lines 165-174)
CleanStrFromMarkdown(text) ==
  DropEnumeration(SpaceAfterDot(DropDotAfterMark(ReplaceNewlines(text, 1), 1), 1), 1)

\* str.strip() and str.rstrip()
RECURSIVE LStrip(_)
LStrip(t) == IF t # <<>> /\ IsSpace(Head(t)) THEN LStrip(Tail(t)) ELSE t

RECURSIVE RStrip(_)
RStrip(t) ==
  IF t # <<>> /\ IsSpace(t[Len(t)]) THEN RStrip(SubSeq(t, 1, Len(t) - 1)) ELSE t

Strip(t) == LStrip(RStrip(t))

\* the first position from j on that holds no white space
RECURSIVE NextToken(_, _)
NextToken(t, j) ==
  IF j <= Len(t) /\ IsSpace(t[j]) THEN NextToken(t, j + 1) ELSE j

\* a sentence ends at position i: a period followed by white space and a
\* further token
IsSentenceEnd(t, i) ==
  /\ t[i] = "."
  /\ i < Len(t)
  /\ IsSpace(t[i + 1])
  /\ NextToken(t, i + 1) <= Len(t)

\* nltk.sent_tokenize(text, language="german") as ask_llm uses it (line 144):
\* the sentences from position s on. A sentence starts at a token, the last
\* one ends where rstrip() ends, and an empty last sentence is left out, so
\* the list is empty for an empty or blank text
RECURSIVE SentencesFrom(_, _, _)
SentencesFrom(t, s, i) ==
  IF i > Len(t)
    THEN (IF s <= Len(RStrip(t)) THEN <<SubSeq(t, s, Len(RStrip(t)))>> ELSE <<>>)
    ELSE IF IsSentenceEnd(t, i)
           THEN <<SubSeq(t, s, i)>>
                  \o SentencesFrom(t, NextToken(t, i + 1), NextToken(t, i + 1))
           ELSE SentencesFrom(t, s, i + 1)

SentTokenize(text) == SentencesFrom(text, 1, 1)

\* re.sub(r'[*_#`"\']+', '', sentence).strip() (line 147)
DropMarkdown(t) == SelectSeq(t, LAMBDA c : ~IsMarkdown(c))

CleanSentence(snt) == Strip(DropMarkdown(snt))

\* re.search(r'[A-Za-z0-9...]', sentence) is not None (line 149)
HasRealChars(snt) == \E i \in 1..Len(snt) : IsAlnum(snt[i])

\* ---- SteamdeckMate.ask_llm ---------------------------------------------------------
\* bound: the number of chunks of an LLM response
MaxChunks == 2

\* the chunks an LLM may stream and the texts of the user
Chunks ==
  { <<>>, <<" ">>, <<"a">>, <<".">>, <<"*">>, <<"\n">>, <<"a", ".">>,
    <<" ", "a">>, <<"1", ".">>, <<"*", ".">> }

UserTexts == { <<"a">>, <<"a", " ", "a">> }

InitAskLlm ==
  /\ al_pc = "idle"
  /\ al_text = <<>>
  /\ stream_sentences = FALSE
  /\ al_stream = <<>>
  /\ response = <<>>
  /\ sentence_buffer = <<>>
  /\ al_yields = <<>>
  /\ al_complete = 0
  /\ al_before = <<>>
  /\ al_passed = <<>>

UserEntry(text) == [role |-> "user", content |-> text]
AssistantEntry(text) == [role |-> "assistant", content |-> text]

\* ask_llm up to the call of chat (lines 131-136): the user entry is appended
\* and the history of the current mode is passed to chat
AskLlmCall(text, ss) ==
  /\ Constructed
  /\ al_pc = "idle"
  /\ LET h == Append(histories[current_mode], UserEntry(text))
     IN /\ histories' = UpdateHistory(histories, current_mode, h)
        /\ al_passed' = h
  /\ pm_call' = [op |-> "add", limit |-> 0, removed |-> 0, head |-> ""]
  /\ al_before' = histories[current_mode]
  /\ al_text' = text
  /\ stream_sentences' = ss
  /\ al_pc' = "chat"
  /\ UNCHANGED <<current_mode, al_stream, response, sentence_buffer, al_yields,
                 al_complete>>
  /\ UNCHANGED othersOfAskLlm

\* response += chunk, with the chunk cleaned (lines 138-140)
AddChunkRaw(resp, chunk) == resp \o chunk
AddChunk(resp, chunk) == resp \o CleanStrFromMarkdown(chunk)

\* lines 145-152: the sentences that are yielded, cleaned, from a list of
\* complete sentences
RECURSIVE RealSentences(_)
RealSentences(sentences) ==
  IF sentences = <<>> THEN <<>>
  ELSE LET x == CleanSentence(Head(sentences))
       IN (IF HasRealChars(x) THEN <<x>> ELSE <<>>) \o RealSentences(Tail(sentences))

\* one pass of the loop over the chunks (lines 136-157); sentences[-1] raises
\* IndexError for an empty list
AskLlmChunk(c) ==
  /\ al_pc = "chat"
  /\ Len(al_stream) < MaxChunks
  /\ al_stream' = Append(al_stream, c)
  /\ response' = AddChunk(response, c)
  /\ IF stream_sentences
       THEN LET buf == AddChunk(sentence_buffer, c)
                sentences == SentTokenize(buf)
            IN IF sentences = <<>>
                 THEN /\ al_pc' = "raised"
                      /\ sentence_buffer' = buf
                      /\ UNCHANGED <<al_yields, al_complete>>
                 ELSE /\ al_yields' = al_yields \o
                           RealSentences(SubSeq(sentences, 1, Len(sentences) - 1))
                      /\ al_complete' = Len(al_yields')
                      /\ sentence_buffer' = sentences[Len(sentences)]
                      /\ UNCHANGED al_pc
       ELSE /\ al_yields' = Append(al_yields, CleanStrFromMarkdown(c))
            /\ UNCHANGED <<al_pc, sentence_buffer, al_complete>>
  /\ UNCHANGED <<al_text, stream_sentences, al_before, al_passed>>
  /\ UNCHANGED pmVars
  /\ UNCHANGED othersOfAskLlm

\* the chunk stream has ended (lines 158-162): the buffer is yielded and the
\* response appended as the assistant entry
AskLlmEnd ==
  /\ al_pc = "chat"
  /\ al_yields' = IF stream_sentences THEN Append(al_yields, sentence_buffer)
                  ELSE al_yields
  /\ histories' = UpdateHistory(histories, current_mode,
       Append(histories[current_mode], AssistantEntry(response)))
  /\ pm_call' = [op |-> "add", limit |-> 0, removed |-> 0, head |-> ""]
  /\ al_pc' = "done"
  /\ UNCHANGED <<current_mode, al_text, stream_sentences, al_stream, response,
                 sentence_buffer, al_complete, al_before, al_passed>>
  /\ UNCHANGED othersOfAskLlm

NextAskLlm ==
  \/ ConstructPrompt("CHAT")
  \/ \E text \in UserTexts, ss \in BOOLEAN : AskLlmCall(text, ss)
  \/ \E c \in Chunks : AskLlmChunk(c)
  \/ AskLlmEnd

\* ---- is_sane_input_german ------------------------------------------------------
\* Texts are over the lower-case letters below, the digit and the space: on
\* these word_tokenize splits at white space, and lower() and
\* strip(string.punctuation) change nothing.
IsLetter(c) == c \in {"a", "b", "d", "e", "u", "x"}

\* word_tokenize(input_str, language='german') (utils.py line 35)
RECURSIVE WordTokenize(_, _, _)
WordTokenize(t, i, cur) ==
  IF i > Len(t) THEN (IF cur = <<>> THEN <<>> ELSE <<cur>>)
  ELSE IF IsSpace(t[i])
         THEN (IF cur = <<>> THEN <<>> ELSE <<cur>>) \o WordTokenize(t, i + 1, <<>>)
         ELSE WordTokenize(t, i + 1, Append(cur, t[i]))

\* the words of GERMAN_WORDS and common_german_words over the letters above
\* (line 15, lines 43-65)
GermanWords == { <<"d", "u">> }
\* german_prefixes and german_suffixes over the letters above (lines 68-69)
GermanPrefixes == { <<"a", "b">> }
GermanSuffixes == { <<"e">> }

StartsWith(w, p) == Len(p) <= Len(w) /\ SubSeq(w, 1, Len(p)) = p
EndsWith(w, x) == Len(x) <= Len(w) /\ SubSeq(w, Len(w) - Len(x) + 1, Len(w)) = x

\* a token that is counted (lines 79-85): alphabetic, and not a single letter
\* other than a, i, o, u
IsCountedWord(w) ==
  /\ w # <<>>
  /\ \A i \in 1..Len(w) : IsLetter(w[i])
  /\ ~(Len(w) <= 1 /\ w[1] \notin {"a", "i", "o", "u"})

\* what a counted word adds to valid_word_count, in tenths (lines 93-120)
WordWeight(w) ==
  LET pre == \E p \in GermanPrefixes : StartsWith(w, p)
      suf == \E x \in GermanSuffixes : EndsWith(w, x)
  IN IF w \in GermanWords THEN 10
     ELSE IF pre /\ suf THEN 9
     ELSE IF suf THEN 7
     ELSE IF pre THEN 5
     ELSE 0

RECURSIVE TotalWordCount(_)
TotalWordCount(tokens) ==
  IF tokens = <<>> THEN 0
  ELSE (IF IsCountedWord(Head(tokens)) THEN 1 ELSE 0) + TotalWordCount(Tail(tokens))

RECURSIVE ValidWordCount(_)
ValidWordCount(tokens) ==
  IF tokens = <<>> THEN 0
  ELSE (IF IsCountedWord(Head(tokens)) THEN WordWeight(Head(tokens)) ELSE 0)
       + ValidWordCount(Tail(tokens))

\* is_sane_input_german with the default threshold 0.15 (lines 17-147): the
\* proportion valid / total is compared with 0.1 for up to five words and with
\* 0.15 for more
IsSaneInputGerman(input_str) ==
  IF input_str = <<>> \/ Strip(input_str) = <<>> THEN FALSE
  ELSE LET tokens == WordTokenize(input_str, 1, <<>>)
           total == TotalWordCount(tokens)
           valid == ValidWordCount(tokens)
       IN IF tokens = <<>> \/ total = 0 THEN FALSE
          ELSE IF total <= 5 THEN valid >= total
          ELSE 2 * valid >= 3 * total

\* ---- SteamdeckMate.listen_and_choose_mode: the loop ---------------------------------
\* bounds: the texts of one transcription stream, and the sentences of one response
MaxDeltas == 2
MaxYields == 2

\* the texts a transcription stream may deliver
Deltas ==
  { <<>>, <<" ">>, <<"d", "u">>, <<"x", "x">>, <<"x", "e">>, <<"a", "b", "x">>,
    <<"1">>, <<" ", "x">> }

\* the TTS services of the registry and their priorities
TtsNames == {"tts_a", "tts_b"}
TtsPriority == [t \in TtsNames |-> IF t = "tts_a" THEN 2 ELSE 1]

\* get_best_service("TTS") among the services that are available
BestTts(av) == CHOOSE t \in av : \A u \in av : TtsPriority[t] >= TtsPriority[u]

\* one entry of what reached play_audio
Beep(file) == [kind |-> "beep", file |-> file, id |-> 0]
Speech(k) == [kind |-> "speech", file |-> "", id |-> k]

\* line 88
InitLoop ==
  /\ lo_pc = "top"
  /\ wake_word = TRUE
  /\ full_text = <<>>
  /\ lo_deltas = 0
  /\ lo_wait = <<>>
  /\ lo_sane = <<>>
  /\ lo_llm_calls = 0
  /\ lo_hist_adds = 0
  /\ lo_yielded = 0
  /\ lo_spoken = 0
  /\ lo_exc = "none"
  /\ processing_sound_task = "none"
  /\ tts_queues = [t \in TtsNames |-> <<>>]
  /\ tts_sentence = [t \in TtsNames |-> 0]
  /\ lo_handed = <<>>

\* lines 90-94: a turn begins, get_human_input is called with wake_word
LoopTurn ==
  /\ lo_pc = "top"
  /\ lo_pc' = "input"
  /\ full_text' = <<>>
  /\ lo_deltas' = 0
  /\ lo_wait' = Append(lo_wait, wake_word)
  /\ UNCHANGED <<wake_word, lo_sane, lo_llm_calls, lo_hist_adds, lo_yielded,
                 lo_spoken, lo_exc, processing_sound_task, tts_queues,
                 tts_sentence, lo_handed>>
  /\ UNCHANGED othersOfLoop

\* lines 93-96: the transcription stream delivers a text
LoopText(text) ==
  /\ lo_pc = "input"
  /\ lo_deltas < MaxDeltas
  /\ full_text' = full_text \o text
  /\ lo_deltas' = lo_deltas + 1
  /\ UNCHANGED <<lo_pc, wake_word, lo_wait, lo_sane, lo_llm_calls, lo_hist_adds,
                 lo_yielded, lo_spoken, lo_exc, processing_sound_task,
                 tts_queues, tts_sentence, lo_handed>>
  /\ UNCHANGED othersOfLoop

\* lines 97-99: the stream has ended and the input is not sane
LoopInputNotSane ==
  /\ lo_pc = "input"
  /\ ~IsSaneInputGerman(full_text)
  /\ lo_sane' = Append(lo_sane, FALSE)
  /\ lo_pc' = "beep_error"
  /\ UNCHANGED <<wake_word, full_text, lo_deltas, lo_wait, lo_llm_calls,
                 lo_hist_adds, lo_yielded, lo_spoken, lo_exc,
                 processing_sound_task, tts_queues, tts_sentence, lo_handed>>
  /\ UNCHANGED othersOfLoop

\* beep_error (human_speech_agent.py lines 80-82): _load_mp3_to_wav_bytesio is
\* a coroutine function called without await, and unpacking the coroutine object
\* raises TypeError before play_audio is reached; the handler of lines 119-122
\* leaves the loop
LoopBeepError ==
  /\ lo_pc = "beep_error"
  /\ lo_exc' = "TypeError"
  /\ lo_pc' = "left"
  /\ UNCHANGED <<wake_word, full_text, lo_deltas, lo_wait, lo_sane, lo_llm_calls,
                 lo_hist_adds, lo_yielded, lo_spoken, processing_sound_task,
                 tts_queues, tts_sentence, lo_handed>>
  /\ UNCHANGED othersOfLoop

\* lines 97, 102-105: the input is sane; the processing sound task is created
LoopInputSane ==
  /\ lo_pc = "input"
  /\ IsSaneInputGerman(full_text)
  /\ lo_sane' = Append(lo_sane, TRUE)
  /\ wake_word' = TRUE
  /\ processing_sound_task' = "created"
  /\ lo_pc' = "ask"
  /\ UNCHANGED <<full_text, lo_deltas, lo_wait, lo_llm_calls, lo_hist_adds,
                 lo_yielded, lo_spoken, lo_exc, tts_queues, tts_sentence,
                 lo_handed>>
  /\ UNCHANGED othersOfLoop

\* lines 106, 131-136: ask_llm adds the user entry, looks up the best LLM and
\* calls chat; without an available LLM get_best_service calls sys.exit
\* (services/__init__.py lines 277-280) and the handler of lines 119-122 leaves
\* the loop
LoopAskLlm(llm_available) ==
  /\ lo_pc = "ask"
  /\ lo_hist_adds' = lo_hist_adds + 1
  /\ IF llm_available
       THEN /\ lo_llm_calls' = lo_llm_calls + 1
            /\ lo_pc' = "stream"
            /\ UNCHANGED lo_exc
       ELSE /\ lo_exc' = "SystemExit"
            /\ lo_pc' = "left"
            /\ UNCHANGED lo_llm_calls
  /\ UNCHANGED <<wake_word, full_text, lo_deltas, lo_wait, lo_sane, lo_yielded,
                 lo_spoken, processing_sound_task, tts_queues, tts_sentence,
                 lo_handed>>
  /\ UNCHANGED othersOfLoop

\* lines 106-108: ask_llm yields a sentence (line 152, or the last one of line
\* 160), the best TTS among the available ones is looked up and the sentence is
\* put on its queue (tts_interface.py lines 85-86); without an available TTS
\* get_best_service calls sys.exit
LoopSentence(av, last) ==
  /\ lo_pc = "stream"
  /\ last \/ lo_yielded + 1 < MaxYields
  /\ lo_yielded' = lo_yielded + 1
  /\ IF av = {}
       THEN /\ lo_exc' = "SystemExit"
            /\ lo_pc' = "left"
            /\ UNCHANGED <<lo_spoken, tts_queues>>
       ELSE /\ tts_queues' = [tts_queues EXCEPT
                               ![BestTts(av)] = Append(@, lo_yielded + 1)]
            /\ lo_spoken' = lo_spoken + 1
            /\ lo_pc' = IF last THEN "llm_end" ELSE "stream"
            /\ UNCHANGED lo_exc
  /\ UNCHANGED <<wake_word, full_text, lo_deltas, lo_wait, lo_sane, lo_llm_calls,
                 lo_hist_adds, processing_sound_task, tts_sentence, lo_handed>>
  /\ UNCHANGED othersOfLoop

\* LlmOllamaRemote.chat (llm_ollama_remote.py lines 38-45) passes on what the
\* client raises while the response streams; ask_llm passes it on, and the
\* handler of lines 119-122 leaves the loop
LoopLlmFails ==
  /\ lo_pc = "stream"
  /\ lo_exc' = "LlmError"
  /\ lo_pc' = "left"
  /\ UNCHANGED <<wake_word, full_text, lo_deltas, lo_wait, lo_sane, lo_llm_calls,
                 lo_hist_adds, lo_yielded, lo_spoken, processing_sound_task,
                 tts_queues, tts_sentence, lo_handed>>
  /\ UNCHANGED othersOfLoop

\* line 162: ask_llm adds the assistant entry and ends
LoopLlmEnds ==
  /\ lo_pc = "llm_end"
  /\ lo_hist_adds' = lo_hist_adds + 1
  /\ lo_pc' = "await_sound"
  /\ UNCHANGED <<wake_word, full_text, lo_deltas, lo_wait, lo_sane, lo_llm_calls,
                 lo_yielded, lo_spoken, lo_exc, processing_sound_task,
                 tts_queues, tts_sentence, lo_handed>>
  /\ UNCHANGED othersOfLoop

\* line 109: awaiting the task re-raises the TypeError that processing_sound
\* (human_speech_agent.py lines 84-86) raised as beep_error does; the handler of
\* lines 119-122 leaves the loop
LoopAwaitProcessingSound ==
  /\ lo_pc = "await_sound"
  /\ processing_sound_task' = "raised"
  /\ lo_exc' = "TypeError"
  /\ lo_pc' = "left"
  /\ UNCHANGED <<wake_word, full_text, lo_deltas, lo_wait, lo_sane, lo_llm_calls,
                 lo_hist_adds, lo_yielded, lo_spoken, tts_queues, tts_sentence,
                 lo_handed>>
  /\ UNCHANGED othersOfLoop

\* TTSInterface._run of one adapter (tts_interface.py lines 54-57): the worker
\* takes the next sentence of its own queue
TtsWorkerGet(t) ==
  /\ tts_sentence[t] = 0
  /\ tts_queues[t] # <<>>
  /\ tts_sentence' = [tts_sentence EXCEPT ![t] = Head(tts_queues[t])]
  /\ tts_queues' = [tts_queues EXCEPT ![t] = Tail(@)]
  /\ UNCHANGED <<lo_pc, wake_word, full_text, lo_deltas, lo_wait, lo_sane,
                 lo_llm_calls, lo_hist_adds, lo_yielded, lo_spoken, lo_exc,
                 processing_sound_task, lo_handed>>
  /\ UNCHANGED othersOfLoop

\* lines 63-71: speak_sentence renders the sentence and hands the audio to
\* play_audio of the one SoundCard (tts_openedai_speech.py lines 47-63)
TtsWorkerSpeak(t) ==
  /\ tts_sentence[t] # 0
  /\ lo_handed' = Append(lo_handed, Speech(tts_sentence[t]))
  /\ tts_sentence' = [tts_sentence EXCEPT ![t] = 0]
  /\ UNCHANGED <<lo_pc, wake_word, full_text, lo_deltas, lo_wait, lo_sane,
                 lo_llm_calls, lo_hist_adds, lo_yielded, lo_spoken, lo_exc,
                 processing_sound_task, tts_queues>>
  /\ UNCHANGED othersOfLoop

NextLoop ==
  \/ LoopTurn
  \/ \E text \in Deltas : LoopText(text)
  \/ LoopInputNotSane
  \/ LoopBeepError
  \/ LoopInputSane
  \/ \E llm_available \in BOOLEAN : LoopAskLlm(llm_available)
  \/ \E av \in SUBSET TtsNames, last \in BOOLEAN : LoopSentence(av, last)
  \/ LoopLlmFails
  \/ LoopLlmEnds
  \/ LoopAwaitProcessingSound
  \/ \E t \in TtsNames : TtsWorkerGet(t)
  \/ \E t \in TtsNames : TtsWorkerSpeak(t)

\* ---- ServiceDiscovery as a singleton: __new__ and __init__ -------------------------
\* bound: the number of constructor calls
MaxCtorCalls == 3

\* the threads that construct, the arguments they pass, the names the scanner
\* writes records for
Ctors == {"t1", "t2"}
CtorArgs == {"defs_a", "defs_b"}
RecordNames == {"tts", "llm"}

InitSingleton ==
  /\ sg_instance = 0
  /\ sg_objects = 0
  /\ sg_initialized = FALSE
  /\ sg_defs = "unset"
  /\ sg_services = {}
  /\ sg_init_runs = 0
  /\ sg_first_defs = "unset"
  /\ sg_written = {}
  /\ ctor_pc = [t \in Ctors |-> "idle"]
  /\ ctor_arg = [t \in Ctors |-> "unset"]
  /\ ctor_calls = 0

\* ServiceDiscovery(defs), __new__ line 89: the test without the lock
NewFastPath(t, defs) ==
  /\ ctor_pc[t] = "idle"
  /\ ctor_calls < MaxCtorCalls
  /\ ctor_calls' = ctor_calls + 1
  /\ ctor_arg' = [ctor_arg EXCEPT ![t] = defs]
  /\ ctor_pc' = [ctor_pc EXCEPT ![t] = IF sg_instance = 0 THEN "lock" ELSE "init"]
  /\ UNCHANGED <<sg_instance, sg_objects, sg_initialized, sg_defs, sg_services,
                 sg_init_runs, sg_first_defs, sg_written>>
  /\ UNCHANGED othersOfSingleton

\* lines 90-93: with the lock held the test is repeated and the object is
\* created if there is none
NewLocked(t) ==
  /\ ctor_pc[t] = "lock"
  /\ IF sg_instance = 0
       THEN /\ sg_objects' = sg_objects + 1
            /\ sg_instance' = sg_objects + 1
       ELSE UNCHANGED <<sg_objects, sg_instance>>
  /\ ctor_pc' = [ctor_pc EXCEPT ![t] = "init"]
  /\ UNCHANGED <<sg_initialized, sg_defs, sg_services, sg_init_runs,
                 sg_first_defs, sg_written, ctor_arg, ctor_calls>>
  /\ UNCHANGED othersOfSingleton

\* __init__ lines 99-100: return if _initialized is set
InitTest(t) ==
  /\ ctor_pc[t] = "init"
  /\ ctor_pc' = [ctor_pc EXCEPT ![t] = IF sg_initialized THEN "idle" ELSE "set"]
  /\ UNCHANGED <<sg_instance, sg_objects, sg_initialized, sg_defs, sg_services,
                 sg_init_runs, sg_first_defs, sg_written, ctor_arg, ctor_calls>>
  /\ UNCHANGED othersOfSingleton

\* line 101: self._initialized = True
InitSetFlag(t) ==
  /\ ctor_pc[t] = "set"
  /\ sg_initialized' = TRUE
  /\ ctor_pc' = [ctor_pc EXCEPT ![t] = "body"]
  /\ UNCHANGED <<sg_instance, sg_objects, sg_defs, sg_services, sg_init_runs,
                 sg_first_defs, sg_written, ctor_arg, ctor_calls>>
  /\ UNCHANGED othersOfSingleton

\* lines 103-127: the definitions are stored and the services map is set to {}
InitBody(t) ==
  /\ ctor_pc[t] = "body"
  /\ sg_defs' = ctor_arg[t]
  /\ sg_services' = {}
  /\ sg_init_runs' = sg_init_runs + 1
  /\ sg_first_defs' = IF sg_init_runs = 0 THEN ctor_arg[t] ELSE sg_first_defs
  /\ ctor_pc' = [ctor_pc EXCEPT ![t] = "idle"]
  /\ UNCHANGED <<sg_instance, sg_objects, sg_initialized, sg_written, ctor_arg,
                 ctor_calls>>
  /\ UNCHANGED othersOfSingleton

\* _check_services_once line 240: the scanner writes the record of a name
ServicesWrite(name) ==
  /\ sg_init_runs > 0
  /\ sg_services' = sg_services \cup {name}
  /\ sg_written' = sg_written \cup {name}
  /\ UNCHANGED <<sg_instance, sg_objects, sg_initialized, sg_defs, sg_init_runs,
                 sg_first_defs, ctor_pc, ctor_arg, ctor_calls>>
  /\ UNCHANGED othersOfSingleton

NextSingleton ==
  \/ \E t \in Ctors, defs \in CtorArgs : NewFastPath(t, defs)
  \/ \E t \in Ctors : NewLocked(t)
  \/ \E t \in Ctors : InitTest(t)
  \/ \E t \in Ctors : InitSetFlag(t)
  \/ \E t \in Ctors : InitBody(t)
  \/ \E name \in RecordNames : ServicesWrite(name)

\* ---- the scanner tasks under any sequence of start() and stop() ---------------------
\* bound: the number of calls of start() and stop() together
MaxScanCalls == 4
ScanTasks == 1..MaxScanCalls

InitScanTasks ==
  /\ st_stop_event = FALSE
  /\ st_update_task = 0
  /\ st_tasks = [t \in ScanTasks |-> "none"]
  /\ st_cancel = [t \in ScanTasks |-> FALSE]
  /\ st_pc = "idle"
  /\ st_calls = 0
  /\ st_last = "none"

\* the tasks of _update_loop that have been created and have not ended
RunningScanners == {t \in ScanTasks : st_tasks[t] \notin {"none", "exited"}}

\* the tasks created so far
CreatedScanners == {t \in ScanTasks : st_tasks[t] # "none"}

\* start() up to its suspension in the first round (lines 176-179): the stop
\* event is cleared, whatever self._update_task holds
ScannerStart ==
  /\ st_pc = "idle"
  /\ st_calls < MaxScanCalls
  /\ st_calls' = st_calls + 1
  /\ st_stop_event' = FALSE
  /\ st_pc' = "start_round"
  /\ UNCHANGED <<st_update_task, st_tasks, st_cancel, st_last>>
  /\ UNCHANGED othersOfScanTasks

\* start() after its first round (line 180): a task of _update_loop is
\* created and self._update_task is made to name it
ScannerStartCreateTask ==
  /\ st_pc = "start_round"
  /\ LET t == Cardinality(CreatedScanners) + 1
     IN /\ st_tasks' = [st_tasks EXCEPT ![t] = "test"]
        /\ st_update_task' = t
  /\ st_pc' = "idle"
  /\ st_last' = "start"
  /\ UNCHANGED <<st_stop_event, st_cancel, st_calls>>
  /\ UNCHANGED othersOfScanTasks

\* stop() up to its await (lines 186-190): without a task in self._update_task
\* it returns at once; otherwise it sets the stop event and cancels that task
ScannerStop ==
  /\ st_pc = "idle"
  /\ st_calls < MaxScanCalls
  /\ st_calls' = st_calls + 1
  /\ IF st_update_task = 0
       THEN /\ st_last' = "stop"
            /\ UNCHANGED <<st_stop_event, st_cancel, st_pc>>
       ELSE /\ st_stop_event' = TRUE
            /\ st_cancel' = [st_cancel EXCEPT ![st_update_task] = TRUE]
            /\ st_pc' = "stop_await"
            /\ UNCHANGED st_last
  /\ UNCHANGED <<st_update_task, st_tasks>>
  /\ UNCHANGED othersOfScanTasks

\* stop() from the end of its await to its return (lines 190-193)
ScannerStopReturn ==
  /\ st_pc = "stop_await"
  /\ st_tasks[st_update_task] = "exited"
  /\ st_update_task' = 0
  /\ st_pc' = "idle"
  /\ st_last' = "stop"
  /\ UNCHANGED <<st_stop_event, st_tasks, st_cancel, st_calls>>
  /\ UNCHANGED othersOfScanTasks

\* a task of _update_loop that has not been cancelled runs to its next
\* suspension (lines 199-202): from the while test into the round, or out of
\* the loop when the stop event is set; from the round into the sleep; from
\* the sleep back to the test
UpdateLoopStep(t) ==
  /\ st_tasks[t] \in {"test", "round", "sleep"}
  /\ ~st_cancel[t]
  /\ st_tasks' = [st_tasks EXCEPT ![t] =
                    IF st_tasks[t] = "test"
                      THEN IF st_stop_event THEN "exited" ELSE "round"
                    ELSE IF st_tasks[t] = "round" THEN "sleep" ELSE "test"]
  /\ UNCHANGED <<st_stop_event, st_update_task, st_cancel, st_pc, st_calls,
                 st_last>>
  /\ UNCHANGED othersOfScanTasks

\* a cancelled task runs again: CancelledError ends it, before its first
\* step, in the round (line 200) or in the sleep (lines 203-204)
UpdateLoopCancelled(t) ==
  /\ st_tasks[t] \in {"test", "round", "sleep"}
  /\ st_cancel[t]
  /\ st_tasks' = [st_tasks EXCEPT ![t] = "exited"]
  /\ UNCHANGED <<st_stop_event, st_update_task, st_cancel, st_pc, st_calls,
                 st_last>>
  /\ UNCHANGED othersOfScanTasks

NextScanTasks ==
  \/ ScannerStart
  \/ ScannerStartCreateTask
  \/ ScannerStop
  \/ ScannerStopReturn
  \/ \E t \in ScanTasks : UpdateLoopStep(t)
  \/ \E t \in ScanTasks : UpdateLoopCancelled(t)

\* ---- clean_str_from_markdown applied to a text, and to its own result ---------------
\* bound: the length of the text
MaxCleanLen == 3

\* letters, digits, periods, other punctuation, spaces and newlines
CleanChars == {"a", "1", ".", ",", "?", " ", "\n"}

InitClean ==
  /\ cm_pc = "text"
  /\ cm_text = <<>>
  /\ cm_once = <<>>
  /\ cm_twice = <<>>

\* the caller's text grows by one character
CleanText(c) ==
  /\ cm_pc = "text"
  /\ Len(cm_text) < MaxCleanLen
  /\ cm_text' = Append(cm_text, c)
  /\ UNCHANGED <<cm_pc, cm_once, cm_twice>>
  /\ UNCHANGED othersOfClean

\* clean_str_from_markdown(text)
CleanCall ==
  /\ cm_pc = "text"
  /\ cm_once' = CleanStrFromMarkdown(cm_text)
  /\ cm_pc' = "once"
  /\ UNCHANGED <<cm_text, cm_twice>>
  /\ UNCHANGED othersOfClean

\* clean_str_from_markdown applied to what the first call returned
CleanCallAgain ==
  /\ cm_pc = "once"
  /\ cm_twice' = CleanStrFromMarkdown(cm_once)
  /\ cm_pc' = "twice"
  /\ UNCHANGED <<cm_text, cm_once>>
  /\ UNCHANGED othersOfClean

NextClean ==
  \/ \E c \in CleanChars : CleanText(c)
  \/ CleanCall
  \/ CleanCallAgain

\* ---- specifications of the playback side ------------------------------------
\* play_audio and the device callback
NextEngine ==
  \/ \E n \in ItemLens : PlayAudioClear(n)
  \/ PlayAudioPut
  \/ PlaybackCallbackEnter
  \/ PlaybackCallbackLoop
  \/ PlaybackCallbackGet
  \/ PlaybackCallbackAssign

\* ... and stop_playback
NextPlayback ==
  \/ NextEngine
  \/ StopPlaybackSet
  \/ StopPlaybackCheck
  \/ StopPlaybackGet

\* ... and a caller of wait_until_playback_finished
NextWait ==
  \/ NextPlayback
  \/ WaitCall
  \/ WaitStep1
  \/ WaitStep2
  \/ WaitObserve
  \/ WaitExpire

Init ==
  /\ InitPlayback /\ InitRecord /\ InitDiscovery /\ InitScanner /\ InitPrompt
  /\ InitStt /\ InitTts /\ InitInterrupt /\ InitAskLlm /\ InitLoop
  /\ InitSingleton /\ InitClean /\ InitScanTasks

SpecEngine == Init /\ [][NextEngine]_vars
SpecPlayback == Init /\ [][NextPlayback]_vars
SpecWait == Init /\ [][NextWait]_vars
SpecRecord == Init /\ [][NextRecord]_vars
SpecDiscovery == Init /\ [][NextDiscovery]_vars
SpecRounds == Init /\ [][NextRounds]_vars

\* ---- what the device has been given ---------------------------------------
\* output returned so far, and the output the running invocation has built
Produced == AppendAll(emitted, cb_segs)

IsData(s) == s.t = "data"
DataSegs(h) == SelectSeq(h, IsData)

RECURSIVE PadFrames(_)
PadFrames(h) ==
  IF h = <<>> THEN 0
  ELSE (IF Head(h).t = "pad" THEN Head(h).to ELSE 0) + PadFrames(Tail(h))

\* items taken out of the queue by the callback and made the current buffer
Begun == Len(played) - Len(playback_queue) - (IF cb_pc = "assign" THEN 1 ELSE 0)
\* ... of which completely copied to the output
Drained == Begun - (IF current_buffer.len > 0 THEN 1 ELSE 0)

\* the bytes item k has contributed to the output
ExpectedSeg(k) ==
  Seg("data", k, 0, IF current_buffer.id = k THEN current_pos
                    ELSE played[k] * BytesPerFrame)

RECURSIVE ExpectedData(_)
ExpectedData(k) ==
  IF k = 0 THEN <<>>
  ELSE IF ExpectedSeg(k).to = 0 THEN ExpectedData(k - 1)
  ELSE Append(ExpectedData(k - 1), ExpectedSeg(k))

\* C1: without stop_playback the item bytes given to the device are exactly
\* the bytes of the items taken from the queue so far, item after item in
\* the order of the play_audio calls, each item from its first byte on without
\* a gap or a repetition (also across callback buffers).
C1_FifoNoDropNoDup ==
  ~everStopped => DataSegs(Produced) = ExpectedData(Begun)

\* two items were played completely, one longer than a callback buffer, and
\* the last callback's buffer held the end of an item and the start of its padding
C1_Witness ==
  /\ ~everStopped
  /\ Len(DataSegs(emitted)) = 2
  /\ \E i \in 1..Len(emitted) :
       emitted[i].t = "data" /\ emitted[i].to > FramesPerBuffer * BytesPerFrame
  /\ Drained = 2
  /\ \E i \in 1..Len(last_out) : \E j \in 1..Len(last_out) :
       i < j /\ last_out[i].t = "data" /\ last_out[j].t = "pad"

\* C2: every drained item (also an empty one) is followed by exactly one second
\* of padding before the next item's first sample: the data of the k-th item
\* is preceded by (k-1) seconds of padding, and the padding produced plus the
\* padding still owed is one second per drained item.
C2_OneSecondAfterEveryItem ==
  ~everStopped =>
    /\ \A i \in 1..Len(Produced) :
         Produced[i].t = "data" =>
           PadFrames(SubSeq(Produced, 1, i - 1)) = SampleRate * (Produced[i].id - 1)
    /\ PadFrames(Produced) + leftover_silence_frames = SampleRate * Drained

\* C5: after stop_playback interrupted a partly played item and a play_audio
\* called after it has enqueued the abort phrase X, a callback invocation that
\* starts from then on gives the device no byte of an item enqueued before
\* the stop (neither the rest of the interrupted item nor an older queued one).
C5_AbortPhraseNext ==
  last_abort > 0 =>
    \A i \in 1..Len(last_out) :
      last_out[i].t = "data" => last_out[i].id >= last_abort

\* ---- the waiter -------------------------------------------------------------
\* the device keeps invoking the callback, and a thread that is inside
\* play_audio, stop_playback or wait_until_playback_finished keeps running;
\* nobody is obliged to call play_audio, stop_playback or the wait
SpecWaitFair ==
  /\ Init /\ [][NextWait]_vars
  /\ WF_vars(PlaybackCallbackEnter) /\ WF_vars(PlaybackCallbackLoop)
  /\ WF_vars(PlaybackCallbackGet) /\ WF_vars(PlaybackCallbackAssign)
  /\ WF_vars(PlayAudioPut)
  /\ WF_vars(StopPlaybackCheck) /\ WF_vars(StopPlaybackGet)
  /\ WF_vars(WaitStep1) /\ WF_vars(WaitStep2)
  /\ WF_vars(WaitObserve) /\ WF_vars(WaitExpire)

\* C3: the wait returns only out of a window every observation of which found
\* the queue empty, the current buffer empty and no silence owed; an
\* observation that finds work ends the window and the wait starts over.
C3_ReturnOnlyAfterIdleWindow ==
  /\ w_done => w_win = {TRUE}
  /\ FALSE \in w_win => w_pc \in {"step1", "step2"}

\* the wait has returned after an item was played and its padding was over
C3_Witness ==
  /\ w_done
  /\ Drained >= 1
  /\ DataSegs(emitted) # <<>>

\* C4: with finitely many play_audio calls and a running callback, a wait
\* that has been called returns.
C4_WaitReturns ==
  (w_pc # "idle") ~> (w_pc = "idle" \/ cb_pc = "dead")

\* C6: a delivered frame is stored only when recording_active is set and the
\* stop signal is clear; while no record stream is being consumed nothing is
\* stored, so the capture queue stays empty.
C6_FramesGatedByRecordingActive ==
  /\ last_frame.stored => (last_frame.active /\ ~last_frame.stop)
  /\ gen_pc \in {"none", "done"} => record_queue = <<>>

\* C7: from its start to its finally block the stream has recording_active
\* set, the start clears the stop signal (no stop_recording since: it is still
\* clear), and once the iteration has exited recording_active is false and the
\* capture queue is empty.
C7_RecordStreamLifecycle ==
  /\ gen_pc \in {"loop", "get", "sleep", "yield", "abandoned", "fin"} => recording_active
  /\ gen_pc = "done" => (~recording_active /\ record_queue = <<>>)

\* ---- service selection and probe rounds -------------------------------------
\* record i of the map is an available record of type T with an instance
Eligible(i, T) ==
  /\ services[i].instance # 0
  /\ service_definitions[services[i].instance].type = T
  /\ services[i].available

PriorityAt(i) == service_definitions[services[i].instance].priority

\* C8: in every state of the registry and for every type, the instance
\* get_best_service returns belongs to an available record of that type, no
\* available record of the type has a higher priority, and no record of the
\* same priority was inserted into the map before it.
C8_BestIsMaxPriorityEarliest ==
  sd_init =>
    \A T \in ServiceTypes :
      LET a == GetBestService(services, T) IN
      a.kind = "return" =>
        \E i \in 1..Len(services) :
          /\ services[i].instance = a.instance
          /\ Eligible(i, T)
          /\ \A j \in 1..Len(services) :
               Eligible(j, T) =>
                 \/ PriorityAt(j) < PriorityAt(i)
                 \/ PriorityAt(j) = PriorityAt(i) /\ i <= j

\* get_best_service has just returned the earlier of two available services of
\* the same type and priority
C8_Witness ==
  /\ gb_result.kind = "return"
  /\ gb_result = GetBestService(services, gb_result.type)
  /\ \E i \in 1..Len(services) : \E j \in 1..Len(services) :
       /\ i < j
       /\ Eligible(i, gb_result.type) /\ Eligible(j, gb_result.type)
       /\ PriorityAt(i) = PriorityAt(j)
       /\ services[i].instance = gb_result.instance

\* C9: once a round has completed, the map holds a record for every defined
\* service and its available flag is the outcome of that service's probe in
\* the last completed round (true only if check_availability returned True;
\* false if it returned False, raised, or the instance could not be created),
\* whatever the other probes of the round did and whatever rounds are under way.
C9_AvailableIsLastRoundResult ==
  last_round # <<>> =>
    \A d \in 1..Len(service_definitions) :
      /\ HasRecord(services, service_definitions[d].name)
      /\ RecordOf(services, service_definitions[d].name).available
           = (last_round[d] = "ok")

\* a round in which one probe raised and another succeeded has completed
\* while another round is under way
C9_Witness ==
  /\ last_round # <<>>
  /\ \E d \in 1..Len(service_definitions) : \E e \in 1..Len(service_definitions) :
       /\ last_round[d] = "raise" /\ last_round[e] = "ok"
       /\ ~RecordOf(services, service_definitions[d].name).available
       /\ RecordOf(services, service_definitions[e].name).available
  /\ \E r \in RoundIds : rounds[r].pc = "probing"

SpecScanner == Init /\ [][NextScanner]_vars

\* the event loop runs every task that can run, the network answers where the
\* host answers, and a timer that was set fires; the caller is free to call
\* start() and stop() or not, and the operating system is free to give a
\* connection attempt up or not
SpecScannerFair ==
  /\ SpecScanner
  /\ \A r \in RoundIds : \A d \in 1..MaxDefs :
       /\ WF_vars(ProbeConnect(r, d))
       /\ WF_vars(ConnectReturns(r, d))
       /\ WF_vars(WaitForTimeout(r, d))
  /\ WF_vars(StartFinish)
  /\ WF_vars(LoopIterate)
  /\ WF_vars(LoopWrite)
  /\ WF_vars(LoopCancelled)
  /\ WF_vars(StopReturn)

\* C11: every probe round that has begun eventually ends (its results are
\* written, or it is abandoned with its cancelled scanner), whatever the
\* hosts behind the endpoints do: a host that never answers does not keep a
\* round from completing, for every adapter class.
C11_EveryRoundCompletes ==
  \A r \in RoundIds : (rounds[r].pc = "probing") ~> (rounds[r].pc = "idle")

\* the first round of the last start() has been written and stop() has not
\* returned since
FirstRoundDone == last_call \in {"start", "stopping", "stopping_round"}

\* C12: the scanner task exists, and a round of the scanner is under way,
\* only after the first round of start() has been completed and written; and
\* in the state in which start() returns every defined service has a record
\* whose available flag is the result of that first round.
C12_StartReturnsAfterFullRound ==
  /\ loop_pc # "none" => FirstRoundDone
  /\ rounds["loop"].pc = "probing" => FirstRoundDone
  /\ (last_call = "start" /\ loop_pc = "new") =>
       /\ Len(last_round) = Len(service_definitions)
       /\ \A d \in 1..Len(service_definitions) :
            /\ HasRecord(services, service_definitions[d].name)
            /\ RecordOf(services, service_definitions[d].name).available
                 = (last_round[d] = "ok")

\* start() has returned after a round that found one service reachable and
\* another not, and the scanner has not run yet
C12_Witness ==
  /\ last_call = "start" /\ loop_pc = "new" /\ start_pc = "idle"
  /\ \E d \in 1..Len(last_round) : last_round[d] = "ok"
  /\ \E d \in 1..Len(last_round) : last_round[d] = "down"

\* stop() has returned and no start() has been called since
Stopped ==
  /\ last_call \in {"stop", "stop_round", "stop_noop"}
  /\ start_pc = "idle" /\ stop_pc = "idle"

SpecPromptEntries == Init /\ [][NextPromptEntries]_vars
SpecPrompt == Init /\ [][NextPrompt]_vars

\* the history of the current mode
ActiveHistory == histories[current_mode]

\* C14: a call of reduce_history on a history that begins with a system entry
\* leaves a history that still begins with that entry, for every limit
\* (so the history is never emptied).
C14_ReduceKeepsSystemEntry ==
  [][(/\ pm_call'.op = "reduce"
      /\ ActiveHistory # <<>>
      /\ ActiveHistory[1].role = "system")
     => (/\ ActiveHistory' # <<>>
         /\ ActiveHistory'[1] = ActiveHistory[1])]_vars

\* the last k entries of a history
LastEntries(h, k) == SubSeq(h, Len(h) - k + 1, Len(h))

\* C15: a call of reduce_history(L) leaves a suffix of the history it found
\* (the oldest entries are the ones removed); it removes an entry only while
\* the total exceeds L, so a total that is already within L leaves the
\* history unchanged; and when the system entry at the head fits in L, the
\* total after the call is within L.
C15_ReduceWithinLimitOldestFirst ==
  [][pm_call'.op = "reduce" =>
       LET L == pm_call'.limit
           h == ActiveHistory
           k == Len(ActiveHistory')
       IN /\ k <= Len(h)
          /\ ActiveHistory' = LastEntries(h, k)
          /\ CountHistoryTokens(h) <= L => ActiveHistory' = h
          /\ \A j \in (k + 1)..Len(h) : CountHistoryTokens(LastEntries(h, j)) > L
          /\ (h # <<>> /\ h[1].role = "system" /\ CountTokens(h[1].content) <= L)
               => CountHistoryTokens(ActiveHistory') <= L]_vars

\* reduce_history has found a history that began with its system entry, has
\* removed entries with a limit in which every system entry fits, and has
\* left some
C15_Witness ==
  /\ pm_call.op = "reduce" /\ pm_call.removed >= 1 /\ pm_call.limit >= 3
  /\ pm_call.head = "system"
  /\ ActiveHistory # <<>>
  /\ CountHistoryTokens(ActiveHistory) <= pm_call.limit

\* C16: after construction and after every sequence of set_mode,
\* add_user_entry, add_assistant_entry and empty_history, the history of the
\* current mode begins with the system entry of that mode's template and has
\* no other system entry.
C16_SystemEntryFirstAndOnly ==
  Constructed =>
    /\ ActiveHistory # <<>>
    /\ ActiveHistory[1] = [role |-> "system", content |-> SystemPrompt(current_mode)]
    /\ \A i \in 2..Len(ActiveHistory) : ActiveHistory[i].role # "system"

\* the manager was constructed in CHAT, switched to LEDCONTROL, entries were
\* added there and the history was emptied again
C16_Witness ==
  /\ current_mode = "LEDCONTROL"
  /\ pm_call.op = "empty"
  /\ Len(histories["CHAT"]) >= 2

\* C17: a call that is not set_mode changes at most the history of the
\* current mode, and set_mode changes no history.
C17_HistoriesIndependent ==
  [][/\ current_mode' = current_mode =>
          \A m \in Modes \ {current_mode} : histories'[m] = histories[m]
     /\ (Constructed /\ current_mode' # current_mode) => histories' = histories]_vars

\* after entries were added in one mode, the history of the other mode has
\* been reduced and the first one is as it was left
C17_Witness ==
  /\ pm_call.op = "reduce" /\ pm_call.removed >= 1
  /\ \E m \in Modes \ {current_mode} :
       /\ Len(histories[m]) >= 3
       /\ histories[m][1].role = "system"

\* ---- a transcribe_stream session ---------------------------------------------
SpecStt == Init /\ [][NextStt]_vars

\* a is the beginning of b
IsPrefix(a, b) == Len(a) <= Len(b) /\ a = SubSeq(b, 1, Len(a))

\* C18: the deltas yielded so far, put together, are the transcript the
\* generator took last, which is one the receiver accepted or a beginning of
\* the last one it accepted (deltas come in arrival order and each is the
\* rest of the new transcript after the previous one); and when the generator
\* has ended without being closed by its consumer, they are the last
\* transcript the receiver accepted.
C18_DeltasAddUpToLastTranscript ==
  /\ yielded_text = old_full_text
  /\ IsPrefix(old_full_text, accepted)
  /\ ts_pc = "done" => yielded_text = accepted

\* C19: in a session, whatever ends it, websocket_on_open is called at most
\* once and websocket_on_close at most once, and when the session is over
\* (the generator has ended and the connection is closed) websocket_on_close
\* has been called exactly once.
C19_CallbacksFireOnce ==
  /\ opens <= 1
  /\ closes <= 1
  /\ (ts_pc \in {"done", "closed"} /\ ws_state = "closed") => closes = 1

\* ---- the TTS worker ----------------------------------------------------------
SpecTts == Init /\ [][NextTts]_vars

\* C20: when wait_until_done has returned, the worker did not hold, at that
\* moment, a sentence it had taken from the queue and not yet handed to
\* play_audio, and every sentence speak() had accepted by then was either
\* handed to play_audio or discarded by a stop signal.
C20_WaitUntilDoneOnlyWhenIdle ==
  wd_held # "held"

\* set_stop_signal has returned and clear_stop_signal has not yet been called
StopSignalReturned == ss_pc = "idle" /\ stop_signal

\* C21: from the return of set_stop_signal until clear_stop_signal the
\* sentence queue is empty, and from the call of set_stop_signal until
\* clear_stop_signal no sentence is handed to play_audio (the sentence the
\* worker is synthesizing when the call is made is aborted), whatever the
\* worker thread and a concurrent speak() are doing.
C21_StopSignalDrainsAndAborts ==
  /\ [](StopSignalReturned => sentence_queue = <<>>)
  /\ [][stop_signal => spoken' = spoken]_vars

\* ---- the interrupt worker ------------------------------------------------------
SpecInterrupt == Init /\ [][NextInterrupt]_vars

\* the steps of the worker thread and of the caller of stop() are taken when
\* they can be; the wake word and the end of the capture stream are up to the
\* surroundings
SpecInterruptFair ==
  /\ SpecInterrupt
  /\ WF_vars(RunSetEvent)
  /\ WF_vars(RunCallback)
  /\ WF_vars(InterruptStopJoined)
  /\ WF_vars(InterruptStopTimeout)
  /\ WF_vars(StopSpeechInterruptThreadDone)

\* C22: once the stop event is set while listen_for_wake_word is listening,
\* the listener eventually returns, also when the wake word is never
\* detected.
C22_ListenerReturnsOnStop ==
  [](it_stop_event /\ it_run_pc = "listen" => <>(it_run_pc # "listen"))

\* C23: the worker invokes the stop-callback at most once, only when its
\* listener detected the wake word, and with the stop event set; a worker that
\* has ended without a detection has not invoked it.
C23_CallbackOnlyOnDetection ==
  /\ it_callbacks <= 1
  /\ it_callbacks > 0 => it_last_callback.detected /\ it_last_callback.event
  /\ (it_thread = "dead" /\ it_ended_by # "detected") => it_callbacks = 0

\* ---- ask_llm -------------------------------------------------------------------
SpecAskLlm == Init /\ [][NextAskLlm]_vars

\* the chunks of a stream, each cleaned, one after the other
RECURSIVE ConcatCleaned(_)
ConcatCleaned(stream) ==
  IF stream = <<>> THEN <<>>
  ELSE CleanStrFromMarkdown(Head(stream)) \o ConcatCleaned(Tail(stream))

\* C26: while the chunks of an ask_llm call are streamed, the history is the
\* history before the call plus the user entry, and that history was passed to
\* chat; when the call has run to the end of the stream, the history is the
\* history before the call plus the user entry and one assistant entry that
\* holds the cleaned chunks in their order.
C26_UserThenAssistantEntry ==
  /\ al_pc = "chat" =>
       /\ histories[current_mode] = Append(al_before, UserEntry(al_text))
       /\ al_passed = histories[current_mode]
  /\ al_pc = "done" =>
       /\ histories[current_mode] =
            al_before \o <<UserEntry(al_text), AssistantEntry(ConcatCleaned(al_stream))>>
       /\ al_passed = Append(al_before, UserEntry(al_text))

\* a call with two chunks that cleaning changes has run to the end
C26_Witness ==
  /\ al_pc = "done"
  /\ Len(al_stream) = 2
  /\ response # al_stream[1] \o al_stream[2]
  /\ response # <<>>

\* C27: with stream_sentences = true ask_llm raises no error, every complete
\* sentence it yields has a letter or digit, the buffer left at the end of the
\* stream is yielded if and only if it is not empty, and no empty string is
\* yielded.
C27_SentencesNeverEmpty ==
  stream_sentences =>
    /\ al_pc # "raised"
    /\ \A i \in 1..al_complete : HasRealChars(al_yields[i])
    /\ al_pc = "done" => (Len(al_yields) > al_complete <=> sentence_buffer # <<>>)
    /\ \A i \in 1..Len(al_yields) : al_yields[i] # <<>>

\* ---- the orchestrator loop ----------------------------------------------------
SpecLoop == Init /\ [][NextLoop]_vars

ErrorBeeps ==
  Cardinality({ i \in 1..Len(lo_handed) : lo_handed[i] = Beep("sounds/denybeep1.mp3") })

SegBytes(s) == IF s.t = "pad" THEN (s.to - s.from) * BytesPerFrame ELSE s.to - s.from

RECURSIVE OutputBytes(_)
OutputBytes(segs) ==
  IF segs = <<>> THEN 0 ELSE SegBytes(Head(segs)) + OutputBytes(Tail(segs))

\* C30: every invocation of the playback callback ends by returning, and what
\* it returns has frame_count * bytes_per_frame bytes.
C30_CallbackReturnsExactFrames ==
  /\ cb_pc # "dead"
  /\ last_out # <<>> => OutputBytes(last_out) = FramesPerBuffer * BytesPerFrame

\* ---- the singleton -------------------------------------------------------------
SpecSingleton == Init /\ [][NextSingleton]_vars

\* C31: at most one ServiceDiscovery object is created, the body of __init__
\* runs at most once, the definitions are those of the first construction, and
\* no record the scanner wrote is lost to a later constructor call.
C31_SingletonInitialisedOnce ==
  /\ sg_objects <= 1
  /\ sg_init_runs <= 1
  /\ sg_init_runs > 0 => sg_defs = sg_first_defs
  /\ sg_written \subseteq sg_services

\* ---- clean_str_from_markdown ---------------------------------------------------
SpecClean == Init /\ [][NextClean]_vars

\* C32: applying clean_str_from_markdown to its own result gives that result
\* again.
C32_CleanIdempotent ==
  cm_pc = "twice" => cm_twice = cm_once

\* ---- the callback under the stop signal ---------------------------------------
\* what the callback returns when it finds the stop signal set
StopSilence == <<Seg("stop", 0, 0, FramesPerBuffer * BytesPerFrame)>>

\* C33: an invocation of the playback callback that finds the stop signal set
\* returns silence only and leaves the playback queue, the current buffer, the
\* read position and the leftover silence as they are.
C33_StoppedCallbackConsumesNothing ==
  [][(stop_signal_playback /\ PlaybackCallbackEnter) =>
       /\ last_out' = StopSilence
       /\ cb_pc' = "idle"
       /\ UNCHANGED <<playback_queue, current_buffer, current_pos,
                      leftover_silence_frames, emitted>>]_vars

\* the callback has returned silence under the stop signal with an item partly
\* played and another one waiting in the queue
C33_Witness ==
  /\ stop_signal_playback
  /\ last_out = StopSilence
  /\ current_buffer.len > 0 /\ current_pos > 0
  /\ playback_queue # <<>>

\* ---- the idle condition and the items in the engine --------------------------
\* C34: when the queue is empty, the current buffer is empty and no silence is
\* owed, no item is left in the engine: none has been taken from the queue
\* without having become the current buffer.
C34_IdleMeansNothingInFlight ==
  EngineIdle => (cb_pc # "assign" /\ cb_item = NoItem)

\* ---- stop_playback and the queue ------------------------------------------------
\* C35: stop_playback never waits on the playback queue: when it is about to
\* take an item (line 279) there is one to take.
C35_StopPlaybackNeverBlocks ==
  sp_pc = "get" => playback_queue # <<>>

\* ---- the record stream and stop_recording ---------------------------------------
\* C36: the generator of get_record_stream is never left waiting on the capture
\* queue: when it is about to take a chunk (line 212) or to drop one in its
\* cleanup (line 223), there is one to take.
C36_ConsumerNeverBlocked ==
  gen_pc \in {"get", "drain_get"} => record_queue # <<>>

\* C37: at any time at most one worker thread of a TTS adapter is running
\* _run and consuming the sentence queue, under every interleaving of speak,
\* set_stop_signal and clear_stop_signal.
C37_AtMostOneWorker ==
  Cardinality(LiveWorkers) <= 1

\* C38: a synthesis error does not end the worker thread and does not leave
\* the in-flight marker set: no ended worker holds a sentence it took from the
\* queue, and the marker is set only while a running worker is speaking, so
\* that every accepted sentence is handed over or discarded and
\* wait_until_done can return.
C38_SynthesisErrorKeepsWorker ==
  /\ \A w \in Workers : run_pc[w] = "exited" => sentence[w] = 0
  /\ speaking => \E w \in LiveWorkers : run_pc[w] \in {"speak", "unmark"}

\* C39: once say_abort_speech has completed, and until a stop signal is set
\* again, a call of speak() is not dropped: its sentence is enqueued.
C39_SpeakAcceptedAfterAbort ==
  [][ab_pc = "ended" => dropped' = dropped]_vars

SpecScanTasks == Init /\ [][NextScanTasks]_vars

\* C40: at most one task of _update_loop exists and has not ended at any
\* time, for every sequence of start() and stop() calls, and when the last
\* call made was a stop() that has returned, no such task is running.
C40_AtMostOneScanner ==
  /\ Cardinality(RunningScanners) <= 1
  /\ (st_last = "stop" /\ st_pc = "idle") => RunningScanners = {}

====
